---- MODULE Spec2Model ----
(***************************************************************************)
(* Model of netbird-coredns: the file-backed DNS record store              *)
(* (internal/api/storage.go), the record validation (pkg/dns) and the      *)
(* callers that share the records file across processes, the process       *)
(* manager that supervises netbird and coredns                             *)
(* (internal/process/manager.go), the CoreDNS plugin (internal/plugin) and *)
(* the management API (internal/api/handlers.go, server.go).               *)
(*                                                                         *)
(* Spec      the store at system-call granularity: several Storage         *)
(*           instances (one per OS process) on the same records path, each *)
(*           used by the threads of its process.                           *)
(* SpecHeap  one Storage at pointer granularity: the index holds           *)
(*           *dns.Record pointers into a heap shared with the callers.     *)
(* SpecValidate  Record.Validate applied to a bounded set of records.      *)
(* SpecMgr   the Manager: main, Stop, one monitor goroutine per child, the *)
(*           children and the signals the operating system delivers.       *)
(* SpecMgrFair  SpecMgr with the supervisor's own goroutines scheduled     *)
(*           fairly; the children are under no obligation.                 *)
(* SpecDns   the CoreDNS plugin: NetBird.ServeDNS over the plugin's store. *)
(* SpecApi   the management API: the ServeMux and the handlers over one    *)
(*           Storage.                                                      *)
(* SpecLock  the goroutines of one process in the calls of one Storage, at *)
(*           the granularity of the operations on Storage.mu.              *)
(* SpecPointer  SpecHeap with GetRecord: the caller holds the pointer the  *)
(*           index holds and writes through it.                            *)
(* SpecRefresh  the plugin's periodicRefresh goroutine, its ticker, the    *)
(*           records file replaced from outside and the queries served.    *)
(* SpecRefreshFair  SpecRefresh with the goroutine scheduled fairly.       *)
(***************************************************************************)
EXTENDS Integers, Sequences, FiniteSets, TLC

VARIABLES
    mem,      \* mem[p]: Storage.records of process p (domain -> name -> Record)
    mu,       \* mu[p]: the thread holding Storage.mu for writing, or NoThread
    pc,       \* pc[t]: where thread t stands inside SetRecord/DeleteRecord/Reload
    op,       \* op[t]: the call thread t is executing (kind and arguments); for a
              \* DeleteRecord also whether the record was the last of its domain,
              \* for a Reload also the call that had just returned when it was
              \* called, while no SetRecord or DeleteRecord ran then or since
    fd,       \* fd[t]: the inode of the file thread t has open, or NoInode
    err,      \* err[t]: the error save() of thread t is going to return
    ret,      \* the call that has just returned (no call has begun since): its
              \* thread, the call and its result
    canon,    \* inode at s.filePath, or NoInode when the file does not exist
    tmp,      \* inode at s.filePath + ".tmp", or NoInode
    inode,    \* inode[i]: the content of inode i
    ops,      \* number of calls begun so far
    faults,   \* number of system calls that have failed so far
    hHeap,    \* SpecHeap: hHeap[a] is the dns.Record at address a
    hIndex,   \* SpecHeap: Storage.records as pointers (domain -> name -> address)
    hHeld,    \* SpecHeap: the mapping the caller got from its last List call
    hDisk,    \* SpecHeap: the document in the records file
    hRet,     \* SpecHeap: the error of the last SetRecord or DeleteRecord
    vIn,      \* SpecValidate: the Record handed to Validate
    vOut,     \* SpecValidate: what Validate returned for it ("" for nil)
    mList,    \* SpecMgr: Manager.processes, as the names of the children in it
    mRunning, \* SpecMgr: mRunning[c]: Process.running of child c
    mCancelled, \* SpecMgr: m.ctx is done
    osProc,   \* SpecMgr: osProc[c]: "none" (not launched), "alive", "exit0",
              \* "exitErr" (exited with a non-zero status or by a signal)
    mon,      \* SpecMgr: mon[c]: monitorProcess of c: "none", "waiting" (in
              \* cmd.Wait), "reaped" (running cleared), "done"
    mWatch,   \* SpecMgr: mWatch[c]: the context watcher of the command of c:
              \* "none", "armed", "fired"
    mainPc,   \* SpecMgr: where main stands
    mCalls,   \* SpecMgr: the Start calls main has made
    mRet,     \* SpecMgr: what the last call of main returned
    sigArrived, \* SpecMgr: SIGTERM or SIGINT is in sigChan
    snap,     \* SpecMgr: Stop's copy of m.processes
    pos,      \* SpecMgr: Stop's position in the pass over its copy
    elapsed,  \* SpecMgr: polling intervals gone by since Stop set the deadline
    polls,    \* SpecMgr: turns of the polling loop that slept
    graceful, \* SpecMgr: Stop's gracefulShutdown
    mSent,    \* SpecMgr: the signals sent to the children so far
    dIndex,   \* SpecDns: Storage.records of the plugin's store, names as
              \* sequences of characters
    dReq,     \* SpecDns: the query handed to ServeDNS: the name of its question
              \* as it came in and its type
    dOut,     \* SpecDns: what ServeDNS did with it
    aMem,     \* SpecApi: Storage.records of the API server's store
    aFile,    \* SpecApi: the content of the records file
    aReq,     \* SpecApi: the request served last
    aResp,    \* SpecApi: the response to it: status and body
    aErr,     \* SpecApi: the error of the storage call made for it: "none" (no
              \* call), "ok", "invalid", "notfound", "save"
    aCount,   \* SpecApi: requests served so far
    lkPc,     \* SpecLock: lkPc[g]: where goroutine g stands in its call
    lkCall,   \* SpecLock: lkCall[g]: the call of the Storage g is in, or was in last
    lkReaders, \* SpecLock: the goroutines that hold Storage.mu for reading
    lkWriter, \* SpecLock: the goroutine that holds Storage.mu for writing or is
              \* the writer waiting for it, or NoGoroutine
    lkCalls,  \* SpecLock: calls begun so far
    rfPc,     \* SpecRefresh: where periodicRefresh stands: "start" (the ticker
              \* is made, the first refresh not yet begun), "reload" (in
              \* Reload), "wait" (in the receive from ticker.C)
    rfBuf,    \* SpecRefresh: the ticks waiting in ticker.C (0 or 1)
    rfTicks,  \* SpecRefresh: the times the ticker has fired
    rfReloads, \* SpecRefresh: the Reload calls begun
    rfAtTick, \* SpecRefresh: the Reload calls that had begun when the ticker
              \* fired last
    rfErr,    \* SpecRefresh: what the last Reload returned ("none": none yet)
    rfLog,    \* SpecRefresh: the errors logged by refresh
    rfFile    \* SpecRefresh: the content of the records file

storeVars == <<mem, mu, pc, op, fd, err, ret, canon, tmp, inode, ops, faults>>
heapVars == <<hHeap, hIndex, hHeld, hDisk, hRet>>
valVars == <<vIn, vOut>>
mgrVars == <<mList, mRunning, mCancelled, osProc, mon, mWatch, mainPc, mCalls, mRet,
             sigArrived, snap, pos, elapsed, polls, graceful, mSent>>

dnsVars == <<dIndex, dReq, dOut>>
apiVars == <<aMem, aFile, aReq, aResp, aErr, aCount>>
lockVars == <<lkPc, lkCall, lkReaders, lkWriter, lkCalls>>
refVars == <<rfPc, rfBuf, rfTicks, rfReloads, rfAtTick, rfErr, rfLog, rfFile>>

\* what the actions of one specification leave alone
notStore == <<heapVars, valVars, mgrVars, dnsVars, apiVars, lockVars, refVars>>
notHeap == <<storeVars, valVars, mgrVars, dnsVars, apiVars, lockVars, refVars>>
notVal == <<storeVars, heapVars, mgrVars, dnsVars, apiVars, lockVars, refVars>>
notMgr == <<storeVars, heapVars, valVars, dnsVars, apiVars, lockVars, refVars>>
notDns == <<storeVars, heapVars, valVars, mgrVars, apiVars, lockVars, refVars>>
notApi == <<storeVars, heapVars, valVars, mgrVars, dnsVars, lockVars, refVars>>
notLock == <<storeVars, heapVars, valVars, mgrVars, dnsVars, apiVars, refVars>>
notRef == <<storeVars, heapVars, valVars, mgrVars, apiVars, lockVars>>

-----------------------------------------------------------------------------
(* Bounds of the model *)

\* calls begun in one behaviour
MaxOps == 3
\* system calls that fail in one behaviour (open, flock, write, rename)
MaxFaults == 1
\* inodes of the file system: the canonical file, the .tmp file and the
\* files that are unlinked but still open
NumInodes == 4

\* TTL given to a record stored with ttl = 0
DefaultTTL == 60

Procs == {"p1", "p2"}
\* one Storage per process on the same records path; one thread calls it
Threads == {"t1", "t2"}
ProcOf(t) == IF t = "t1" THEN "p1" ELSE "p2"

NoThread == "none"
NoInode == 0
Inodes == 1..NumInodes
NoRecord == [none |-> TRUE]

-----------------------------------------------------------------------------
(* Strings that are inspected character by character are sequences of     *)
(* one-character strings.                                                  *)

Digits == {"0", "1", "2", "3", "4", "5", "6", "7", "8", "9"}
Letters ==
    {"a", "b", "c", "d", "e", "f", "g", "h", "i", "j", "k", "l", "m", "n", "o", "p",
     "q", "r", "s", "t", "u", "v", "w", "x", "y", "z",
     "A", "B", "C", "D", "E", "F", "G", "H", "I", "J", "K", "L", "M", "N", "O", "P",
     "Q", "R", "S", "T", "U", "V", "W", "X", "Y", "Z"}

DigitVal(c) ==
    CASE c = "0" -> 0 [] c = "1" -> 1 [] c = "2" -> 2 [] c = "3" -> 3
      [] c = "4" -> 4 [] c = "5" -> 5 [] c = "6" -> 6 [] c = "7" -> 7
      [] c = "8" -> 8 [] c = "9" -> 9

\* strings.Split(s, sep) for a one-character separator
RECURSIVE SplitAt(_, _)
SplitAt(s, sep) ==
    IF \A i \in 1..Len(s) : s[i] # sep
    THEN <<s>>
    ELSE LET k == CHOOSE i \in 1..Len(s) :
                      s[i] = sep /\ \A j \in 1..(i - 1) : s[j] # sep
         IN  <<SubSeq(s, 1, k - 1)>> \o SplitAt(SubSeq(s, k + 1, Len(s)), sep)

\* strings.TrimSuffix(s, ".")
TrimDot(s) ==
    IF Len(s) > 0 /\ s[Len(s)] = "." THEN SubSeq(s, 1, Len(s) - 1) ELSE s

RECURSIVE DecimalValue(_)
DecimalValue(s) ==
    IF Len(s) = 0 THEN 0
    ELSE 10 * DecimalValue(SubSeq(s, 1, Len(s) - 1)) + DigitVal(s[Len(s)])

\* one field of a dotted quad: 1 to 3 digits, at most 255, no leading zero
IsDecOctet(s) ==
    /\ Len(s) \in 1..3
    /\ \A i \in 1..Len(s) : s[i] \in Digits
    /\ (Len(s) > 1 => s[1] # "0")
    /\ DecimalValue(s) <= 255

IsDottedQuad(s) ==
    LET f == SplitAt(s, ".")
    IN  Len(f) = 4 /\ \A i \in 1..4 : IsDecOctet(f[i])

\* the IPv4-mapped IPv6 literal ::ffff:a.b.c.d, which net.ParseIP accepts and
\* for which To4() is not nil
IsV4Mapped(s) ==
    /\ Len(s) > 7
    /\ SubSeq(s, 1, 7) = <<":", ":", "f", "f", "f", "f", ":">>
    /\ IsDottedQuad(SubSeq(s, 8, Len(s)))

\* ip := net.ParseIP(v); ip != nil && ip.To4() != nil
ParsesAsIPv4(s) == IsDottedQuad(s) \/ IsV4Mapped(s)

isValidLabel(l) ==
    /\ Len(l) \in 1..63
    /\ \A i \in 1..Len(l) : l[i] \in Letters \cup Digits \cup {"-"}
    /\ l[1] # "-"
    /\ l[Len(l)] # "-"

isValidDomain(s) ==
    LET d == TrimDot(s)
        labels == SplitAt(d, ".")
    IN  /\ Len(d) \in 1..253
        /\ \A i \in 1..Len(labels) : isValidLabel(labels[i])

\* Record.Validate: "" when the record is valid, else the error
Validate(r) ==
    IF r.name = "" THEN "record name cannot be empty"
    ELSE IF r.domain = "" THEN "record domain cannot be empty"
    ELSE IF r.type = "" THEN "record type cannot be empty"
    ELSE IF r.value = <<>> THEN "record value cannot be empty"
    ELSE IF r.type = "A"
         THEN IF ParsesAsIPv4(r.value) THEN "" ELSE "invalid IPv4 address"
    ELSE IF r.type = "CNAME"
         THEN IF isValidDomain(r.value) THEN "" ELSE "invalid CNAME target"
    ELSE "unsupported record type"

-----------------------------------------------------------------------------
(* The records the callers pass in *)

IP1 == <<"1", "0", ".", "0", ".", "0", ".", "5">>
Host1 == <<"w", "e", "b", ".", "e", "x">>
NotAnIP == <<"x", "-", "b">>

Rec(n, d, t, v, ttl) == [name |-> n, domain |-> d, type |-> t, value |-> v, ttl |-> ttl]

RecWeb == Rec("web", "example.com", "A", IP1, 0)
RecApi == Rec("api", "example.com", "CNAME", Host1, 30)
RecBadIP == Rec("web", "example.com", "A", NotAnIP, 0)

InputRecords == {RecWeb, RecApi, RecBadIP}
\* a validation that accepts every record
ValidatedAll == [r \in InputRecords |-> ""]

\* record.Validate() of every input, worked out once
Validated == [r \in InputRecords |-> Validate(r)]

Domains == {"example.com"}
Names == {"web", "api"}
\* the place of a name in sorted order
NameRank(n) == IF n = "api" THEN 1 ELSE 2
\* the (domain, name) pairs the callers ask for
Keys == Domains \X Names

-----------------------------------------------------------------------------
(* The two-level index: a function domain -> (name -> Record) *)

EmptyIndex == [d \in {} |-> [n \in {} |-> NoRecord]]

HasDomain(idx, d) == d \in DOMAIN idx
HasRecord(idx, d, n) == d \in DOMAIN idx /\ n \in DOMAIN idx[d]
NamesOf(idx, d) == IF d \in DOMAIN idx THEN DOMAIN idx[d] ELSE {}
RecordCount(idx) == Cardinality({k \in Keys : HasRecord(idx, k[1], k[2])})

\* m[d][n] = v, the domain map made first when it is missing
PutAt(idx, d, n, v) ==
    [e \in DOMAIN idx \cup {d} |->
        IF e = d
        THEN [m \in NamesOf(idx, d) \cup {n} |-> IF m = n THEN v ELSE idx[d][m]]
        ELSE idx[e]]

\* s.records[record.Domain][record.Name] = record
PutRecord(idx, r) == PutAt(idx, r.domain, r.name, r)

\* delete(domainRecords, name)
DeleteEntry(idx, d, n) ==
    [e \in DOMAIN idx |->
        IF e = d THEN [m \in DOMAIN idx[d] \ {n} |-> idx[d][m]] ELSE idx[e]]

\* the deletion without the clean-up of the empty domain map
RemoveRecordKeepDomain(idx, d, n) == DeleteEntry(idx, d, n)

\* a deletion that leaves the record in place
RemoveNothing(idx, d, n) == idx

\* delete(domainRecords, name); if len(domainRecords) == 0 { delete(s.records, domain) }
RemoveRecord(idx, d, n) ==
    IF DOMAIN idx[d] = {n}
    THEN [e \in DOMAIN idx \ {d} |-> idx[e]]
    ELSE DeleteEntry(idx, d, n)

\* the record as SetRecord stores it: if record.TTL == 0 { record.TTL = 60 }
StoredNoDefault(r) == r
Stored(r) == IF r.ttl = 0 THEN [r EXCEPT !.ttl = DefaultTTL] ELSE r

\* GetRecord: the record, or the error
GetRecord(idx, d, n) ==
    IF ~HasDomain(idx, d) THEN [err |-> "notfound", val |-> NoRecord]
    ELSE IF n \notin DOMAIN idx[d] THEN [err |-> "notfound", val |-> NoRecord]
    ELSE [err |-> "ok", val |-> idx[d][n]]

\* ListRecords and ListRecordsByDomain, by value
ListRecords(idx) == [d \in DOMAIN idx |-> [n \in DOMAIN idx[d] |-> idx[d][n]]]
ListRecordsByDomain(idx, d) ==
    IF ~HasDomain(idx, d) THEN [n \in {} |-> NoRecord]
    ELSE [n \in DOMAIN idx[d] |-> idx[d][n]]

-----------------------------------------------------------------------------
(* JSON: what encoder.Encode(s.records) writes, what Decode(&s.records) stores *)

\* TTL has the tag `json:"ttl,omitempty"`: a zero ttl is left out
JsonOfRecord(r) ==
    IF r.ttl = 0
    THEN [name |-> r.name, domain |-> r.domain, type |-> r.type, value |-> r.value]
    ELSE [name |-> r.name, domain |-> r.domain, type |-> r.type, value |-> r.value,
          ttl |-> r.ttl]

RecordOfJson(j) ==
    Rec(j.name, j.domain, j.type, j.value, IF "ttl" \in DOMAIN j THEN j.ttl ELSE 0)

Encode(idx) == [d \in DOMAIN idx |-> [n \in DOMAIN idx[d] |-> JsonOfRecord(idx[d][n])]]

DecodeDoc(doc) == [d \in DOMAIN doc |-> [n \in DOMAIN doc[d] |-> RecordOfJson(doc[d][n])]]

\* json.Decoder.Decode into the existing, non-nil map s.records: the outer map
\* is reused and keeps the keys the document does not name; the value of each
\* key the document names is decoded into a fresh inner map
DecodeInto(old, doc) ==
    [d \in DOMAIN old \cup DOMAIN doc |->
        IF d \in DOMAIN doc
        THEN [n \in DOMAIN doc[d] |-> RecordOfJson(doc[d][n])]
        ELSE old[d]]

\* File contents. kind: "empty" (no bytes), "full" (one whole document),
\* "mixed" (a whole document followed by the tail of a longer, older one),
\* "partial" (a write that failed midway: not a JSON value), "mistyped" (a
\* write that failed midway over older bytes which complete it to a JSON value
\* that has a string where a number belongs; doc is what the value holds
\* beside that), "garbled" (a write that failed midway inside a string, over
\* older bytes that go on inside a string and complete it to a JSON value of
\* the right types). size counts the records' worth of bytes in the file.
EmptyContent == [kind |-> "empty", doc |-> Encode(EmptyIndex), size |-> 0]
FullContent(idx) == [kind |-> "full", doc |-> Encode(idx), size |-> RecordCount(idx)]

\* Decode reads the first JSON value of the file and fails on a syntax error
\* before it stores anything
Decodable(c) == c.kind \in {"full", "mixed", "garbled"}

\* On a value of the wrong type Decode records the error, skips the value and
\* goes on storing the rest of the document
Storable(c) == c.kind \in {"full", "mixed", "mistyped", "garbled"}

-----------------------------------------------------------------------------
(* The file system and the advisory locks *)

\* flock: the exclusive lock is held from save's Flock(LOCK_EX) to its
\* Flock(LOCK_UN), the shared lock from load's Flock(LOCK_SH) to its return
HoldsEX(t) == pc[t] = "save_write"
HoldsSH(t) == pc[t] = "load_decode"

CanLockEX(t) == \A u \in Threads \ {t} : fd[u] = fd[t] => ~HoldsEX(u) /\ ~HoldsSH(u)
CanLockSH(t) == \A u \in Threads \ {t} : fd[u] = fd[t] => ~HoldsEX(u)

Referenced(i, c, tm, f) == i = c \/ i = tm \/ \E t \in Threads : f[t] = i

\* an inode that no path and no descriptor names is gone
Reclaim(cont, c, tm, f) ==
    [i \in Inodes |-> IF Referenced(i, c, tm, f) THEN cont[i] ELSE EmptyContent]

FreeInodes == {i \in Inodes : ~Referenced(i, canon, tmp, fd)}
NewInode == CHOOSE i \in FreeInodes : \A j \in FreeInodes : i <= j

\* the bytes a reader of s.filePath finds
CanonContent == IF canon = NoInode THEN [kind |-> "absent"] ELSE inode[canon]

Idle(t) == pc[t] = "idle"
NoOp == [kind |-> "none"]
NoReturn == [thread |-> NoThread, op |-> NoOp, err |-> "ok", val |-> NoRecord]
\* thread t returns from the call o with the error e ("ok" for nil) and the value v
ReturnTo(t, o, e, v) == ret' = [thread |-> t, op |-> o, err |-> e, val |-> v]

\* a system call fails for a reason outside the program (EMFILE, ENOLCK, ENOSPC, EIO)
Fault == faults < MaxFaults /\ faults' = faults + 1

-----------------------------------------------------------------------------
(* Storage.save, one action per system call *)

\* os.OpenFile(tempFile, O_CREATE|O_WRONLY|O_TRUNC): the open either fails, and
\* save returns before the deferred Remove is registered, or it truncates the
\* file that is at the .tmp path, creating it when there is none
SaveOpen(t) ==
    /\ pc[t] = "save_open"
    /\ UNCHANGED notStore
    /\ \/ /\ Fault
          /\ pc' = [pc EXCEPT ![t] = "idle"]
          /\ mu' = [mu EXCEPT ![ProcOf(t)] = NoThread]
          /\ ReturnTo(t, op[t], "open", NoRecord)
          /\ op' = [op EXCEPT ![t] = NoOp]
          /\ UNCHANGED <<fd, err, canon, tmp, inode>>
       \/ /\ tmp # NoInode \/ FreeInodes # {}
          /\ LET i == IF tmp # NoInode THEN tmp ELSE NewInode
             IN  /\ tmp' = i
                 /\ fd' = [fd EXCEPT ![t] = i]
                 /\ inode' = [inode EXCEPT ![i] = EmptyContent]
          /\ pc' = [pc EXCEPT ![t] = "save_lock"]
          /\ UNCHANGED <<mu, op, err, ret, canon, faults>>
    /\ UNCHANGED <<mem, ops>>

\* syscall.Flock(fd, LOCK_EX): blocks while another descriptor holds a lock on
\* the inode; on failure the file is closed and save returns through the
\* deferred Remove
SaveLock(t) ==
    /\ pc[t] = "save_lock"
    /\ UNCHANGED notStore
    /\ \/ /\ CanLockEX(t)
          /\ pc' = [pc EXCEPT ![t] = "save_write"]
          /\ UNCHANGED <<fd, err, inode, faults>>
       \/ /\ Fault
          /\ pc' = [pc EXCEPT ![t] = "save_remove"]
          /\ err' = [err EXCEPT ![t] = "lock"]
          /\ fd' = [fd EXCEPT ![t] = NoInode]
          /\ inode' = Reclaim(inode, canon, tmp, fd')
    /\ UNCHANGED <<mem, mu, op, ret, canon, tmp, ops>>

\* the bytes of the inode after the document of idx has been written at offset
\* 0 of a descriptor opened without O_APPEND: what lay beyond the document stays
WriteOver(c, idx) ==
    IF RecordCount(idx) < c.size
    THEN [kind |-> "mixed", doc |-> Encode(idx), size |-> c.size]
    ELSE FullContent(idx)

\* a write that stops midway
WriteTorn(c) == [kind |-> "partial", doc |-> Encode(EmptyIndex), size |-> c.size]

\* encoding/json writes the keys of a map in sorted order
LastKey(idx) ==
    CHOOSE k \in Keys :
        /\ HasRecord(idx, k[1], k[2])
        /\ \A j \in Keys : HasRecord(idx, j[1], j[2]) => NameRank(j[2]) <= NameRank(k[2])

\* a write of the document of idx that stops right after the key "ttl" of its
\* last record, over a document whose bytes go on, from there, with a string
\* value of its own last record and the rest of that record: the file is the
\* document of idx with "ttl" given a string and then the ttl of the older
\* record
CanSplice(c, idx) == c.kind \in {"full", "mixed"} /\ c.doc # Encode(EmptyIndex) /\ idx # EmptyIndex
WriteSpliced(c, idx) ==
    LET k   == LastKey(idx)
        j   == LastKey(DecodeDoc(c.doc))
        ttl == DecodeDoc(c.doc)[j[1]][j[2]].ttl
    IN  [kind |-> "mistyped",
         doc  |-> Encode(PutRecord(idx, [idx[k[1]][k[2]] EXCEPT !.ttl = ttl])),
         size |-> c.size]

\* the string that a write of v which stops inside it leaves over bytes that go
\* on inside the string w
SpliceValue(v, w) ==
    SubSeq(v, 1, Len(v) \div 2) \o SubSeq(w, (Len(w) \div 2) + 1, Len(w))

\* a write of the document of idx that stops inside the value of its last
\* record, over a document whose bytes go on, from there, inside the value of
\* its own last record: the file is the document of idx with the value of the
\* last record spliced and its ttl that of the older record
WriteGarbled(c, idx) ==
    LET k   == LastKey(idx)
        j   == LastKey(DecodeDoc(c.doc))
        old == DecodeDoc(c.doc)[j[1]][j[2]]
    IN  [kind |-> "garbled",
         doc  |-> Encode(PutRecord(idx, [idx[k[1]][k[2]] EXCEPT
                                             !.value = SpliceValue(@, old.value),
                                             !.ttl = old.ttl])),
         size |-> c.size]

\* encoder.Encode(s.records), then Flock(LOCK_UN) and Close on both paths
SaveWrite(t) ==
    /\ pc[t] = "save_write"
    /\ UNCHANGED notStore
    /\ fd' = [fd EXCEPT ![t] = NoInode]
    /\ \/ /\ inode' = Reclaim([inode EXCEPT ![fd[t]] =
                                  WriteOver(inode[fd[t]], mem[ProcOf(t)])],
                              canon, tmp, fd')
          /\ pc' = [pc EXCEPT ![t] = "save_rename"]
          /\ UNCHANGED <<err, faults>>
       \/ /\ Fault
          /\ \E torn \in {WriteTorn(inode[fd[t]])} \cup
                          (IF CanSplice(inode[fd[t]], mem[ProcOf(t)])
                           THEN {WriteSpliced(inode[fd[t]], mem[ProcOf(t)]),
                                 WriteGarbled(inode[fd[t]], mem[ProcOf(t)])}
                           ELSE {}) :
                inode' = Reclaim([inode EXCEPT ![fd[t]] = torn], canon, tmp, fd')
          /\ pc' = [pc EXCEPT ![t] = "save_remove"]
          /\ err' = [err EXCEPT ![t] = "encode"]
    /\ UNCHANGED <<mem, mu, op, ret, canon, tmp, ops>>


\* os.Rename(tempFile, s.filePath): whatever file is at the .tmp path becomes
\* the canonical file; it fails when no file is at the .tmp path any more
SaveRename(t) ==
    /\ pc[t] = "save_rename"
    /\ UNCHANGED notStore
    /\ \/ /\ tmp # NoInode
          /\ canon' = tmp
          /\ tmp' = NoInode
          /\ inode' = Reclaim(inode, canon', tmp', fd)
          /\ UNCHANGED <<err, faults>>
       \/ /\ IF tmp = NoInode THEN UNCHANGED faults ELSE Fault
          /\ err' = [err EXCEPT ![t] = "rename"]
          /\ UNCHANGED <<canon, tmp, inode>>
    /\ pc' = [pc EXCEPT ![t] = "save_remove"]
    /\ UNCHANGED <<mem, mu, op, fd, ret, ops>>

\* the deferred os.Remove(tempFile), then the return of save and of the
\* SetRecord or DeleteRecord that called it (s.mu is unlocked by its defer)
SaveRemove(t) ==
    /\ pc[t] = "save_remove"
    /\ UNCHANGED notStore
    /\ tmp' = NoInode
    /\ inode' = Reclaim(inode, canon, tmp', fd)
    /\ pc' = [pc EXCEPT ![t] = "idle"]
    /\ mu' = [mu EXCEPT ![ProcOf(t)] = NoThread]
    /\ ReturnTo(t, op[t], IF err[t] = "" THEN "ok" ELSE err[t], NoRecord)
    /\ op' = [op EXCEPT ![t] = NoOp]
    /\ err' = [err EXCEPT ![t] = ""]
    /\ UNCHANGED <<mem, fd, canon, ops, faults>>

-----------------------------------------------------------------------------
(* Storage.load under Reload, one action per system call *)

\* os.Open(s.filePath)
LoadOpen(t) ==
    /\ pc[t] = "load_open"
    /\ UNCHANGED notStore
    /\ \/ /\ canon # NoInode
          /\ fd' = [fd EXCEPT ![t] = canon]
          /\ pc' = [pc EXCEPT ![t] = "load_lock"]
          /\ UNCHANGED <<mu, op, ret, faults>>
       \/ /\ IF canon = NoInode THEN UNCHANGED faults ELSE Fault
          /\ pc' = [pc EXCEPT ![t] = "idle"]
          /\ mu' = [mu EXCEPT ![ProcOf(t)] = NoThread]
          /\ ReturnTo(t, op[t], IF canon = NoInode THEN "notexist" ELSE "open", NoRecord)
          /\ op' = [op EXCEPT ![t] = NoOp]
          /\ UNCHANGED <<fd>>
    /\ UNCHANGED <<mem, err, canon, tmp, inode, ops>>

\* syscall.Flock(fd, LOCK_SH): blocks while an exclusive lock is held on the
\* inode; on failure load returns and its deferred Close runs
LoadLock(t) ==
    /\ pc[t] = "load_lock"
    /\ UNCHANGED notStore
    /\ \/ /\ CanLockSH(t)
          /\ pc' = [pc EXCEPT ![t] = "load_decode"]
          /\ UNCHANGED <<mu, op, fd, ret, inode, faults>>
       \/ /\ Fault
          /\ pc' = [pc EXCEPT ![t] = "idle"]
          /\ mu' = [mu EXCEPT ![ProcOf(t)] = NoThread]
          /\ ReturnTo(t, op[t], "lock", NoRecord)
          /\ op' = [op EXCEPT ![t] = NoOp]
          /\ fd' = [fd EXCEPT ![t] = NoInode]
          /\ inode' = Reclaim(inode, canon, tmp, fd')
    /\ UNCHANGED <<mem, err, canon, tmp, ops>>

\* what load leaves in s.records: json.NewDecoder(file).Decode(&s.records)
LoadResult(old, c) == IF Storable(c) THEN DecodeInto(old, c.doc) ELSE old

\* the decode, then the deferred Flock(LOCK_UN) and Close, and the return of
\* Reload
LoadDecode(t) ==
    /\ pc[t] = "load_decode"
    /\ UNCHANGED notStore
    /\ mem' = [mem EXCEPT ![ProcOf(t)] = LoadResult(mem[ProcOf(t)], inode[fd[t]])]
    /\ ReturnTo(t, op[t], IF Decodable(inode[fd[t]]) THEN "ok" ELSE "decode", NoRecord)
    /\ pc' = [pc EXCEPT ![t] = "idle"]
    /\ mu' = [mu EXCEPT ![ProcOf(t)] = NoThread]
    /\ op' = [op EXCEPT ![t] = NoOp]
    /\ fd' = [fd EXCEPT ![t] = NoInode]
    /\ inode' = Reclaim(inode, canon, tmp, fd')
    /\ UNCHANGED <<err, canon, tmp, ops, faults>>

-----------------------------------------------------------------------------
(* The calls of the Storage API *)

BeginWrite(t, o) ==
    /\ mu' = [mu EXCEPT ![ProcOf(t)] = t]
    /\ pc' = [pc EXCEPT ![t] = "save_open"]
    /\ op' = [u \in Threads |->
                 IF u = t THEN o
                 ELSE IF op[u].kind = "reload" THEN [op[u] EXCEPT !.after = NoReturn]
                 ELSE op[u]]
    /\ ret' = NoReturn
    /\ UNCHANGED <<fd, err, canon, tmp, inode, faults>>

\* SetRecord up to the call of save: Validate before the lock, then the lock,
\* the TTL default and the insertion
SetRecord(t, r) ==
    /\ Idle(t)
    /\ UNCHANGED notStore
    /\ ops < MaxOps
    /\ ops' = ops + 1
    /\ IF Validated[r] # ""
       THEN /\ ReturnTo(t, [kind |-> "set", domain |-> r.domain, name |-> r.name,
                            rec |-> r], "invalid", NoRecord)
            /\ UNCHANGED <<mem, mu, pc, op, fd, err, canon, tmp, inode, faults>>
       ELSE /\ mu[ProcOf(t)] = NoThread
            /\ mem' = [mem EXCEPT ![ProcOf(t)] = PutRecord(mem[ProcOf(t)], Stored(r))]
            /\ BeginWrite(t, [kind |-> "set", domain |-> r.domain, name |-> r.name,
                              rec |-> r])

\* the call that has just returned was a DeleteRecord of the same key by the
\* same caller, and it found the record
DeletedJustBefore(t, d, n) ==
    /\ ret.thread = t
    /\ ret.op.kind = "delete"
    /\ ret.op.domain = d /\ ret.op.name = n
    /\ ret.err # "notfound"

\* a look-up that stops at the domain
FoundByDomain(idx, d, n) == HasDomain(idx, d)

\* the two look-ups of DeleteRecord: s.records[domain], then domainRecords[name]
FoundForDelete(idx, d, n) == HasDomain(idx, d) /\ n \in DOMAIN idx[d]

\* DeleteRecord up to the call of save
DeleteRecord(t, d, n) ==
    /\ Idle(t)
    /\ UNCHANGED notStore
    /\ ops < MaxOps
    /\ ops' = ops + 1
    /\ mu[ProcOf(t)] = NoThread
    /\ IF ~FoundForDelete(mem[ProcOf(t)], d, n)
       THEN /\ ReturnTo(t, [kind |-> "delete", domain |-> d, name |-> n,
                            last |-> FALSE, again |-> DeletedJustBefore(t, d, n)],
                     "notfound", NoRecord)
            /\ UNCHANGED <<mem, mu, pc, op, fd, err, canon, tmp, inode, faults>>
       ELSE /\ mem' = [mem EXCEPT ![ProcOf(t)] = RemoveRecord(mem[ProcOf(t)], d, n)]
            /\ BeginWrite(t, [kind |-> "delete", domain |-> d, name |-> n,
                              last |-> NamesOf(mem[ProcOf(t)], d) = {n},
                              again |-> DeletedJustBefore(t, d, n)])

\* Reload up to the call of load
Reload(t) ==
    /\ Idle(t)
    /\ UNCHANGED notStore
    /\ ops < MaxOps
    /\ ops' = ops + 1
    /\ mu[ProcOf(t)] = NoThread
    /\ mu' = [mu EXCEPT ![ProcOf(t)] = t]
    /\ pc' = [pc EXCEPT ![t] = "load_open"]
    /\ op' = [op EXCEPT ![t] = [kind |-> "reload",
                                after |-> IF \A u \in Threads : op[u].kind \notin {"set", "delete"}
                                          THEN ret ELSE NoReturn]]
    /\ ret' = NoReturn
    /\ UNCHANGED <<mem, fd, err, canon, tmp, inode, faults>>

-----------------------------------------------------------------------------
(* Construction *)

\* the records file the processes find when they start: none, or a snapshot
\* that an earlier run saved
Snapshot0 == PutRecord(EmptyIndex, Stored(RecWeb))
InitialFiles == {[kind |-> "absent"], FullContent(Snapshot0)}

\* NewStorage: an empty index, then load; a missing file is not an error
NewStorage(f) == IF f.kind = "absent" THEN EmptyIndex ELSE LoadResult(EmptyIndex, f)

StoreInitWith(f) ==
        /\ canon = (IF f.kind = "absent" THEN NoInode ELSE 1)
        /\ tmp = NoInode
        /\ inode = [i \in Inodes |-> IF i = 1 /\ f.kind # "absent" THEN f ELSE EmptyContent]
        /\ mem = [p \in Procs |-> NewStorage(f)]
        /\ mu = [p \in Procs |-> NoThread]
        /\ pc = [t \in Threads |-> "idle"]
        /\ op = [t \in Threads |-> NoOp]
        /\ fd = [t \in Threads |-> NoInode]
        /\ err = [t \in Threads |-> ""]
        /\ ret = NoReturn
        /\ ops = 0
        /\ faults = 0

StoreInit == \E f \in InitialFiles : StoreInitWith(f)

vars == <<storeVars, heapVars, valVars, mgrVars, dnsVars, apiVars, lockVars, refVars>>

Next ==
    \/ \E t \in Threads, r \in InputRecords : SetRecord(t, r)
    \/ \E t \in Threads, k \in Keys : DeleteRecord(t, k[1], k[2])
    \/ \E t \in Threads : Reload(t)
    \/ \E t \in Threads : SaveOpen(t)
    \/ \E t \in Threads : SaveLock(t)
    \/ \E t \in Threads : SaveWrite(t)
    \/ \E t \in Threads : SaveRename(t)
    \/ \E t \in Threads : SaveRemove(t)
    \/ \E t \in Threads : LoadOpen(t)
    \/ \E t \in Threads : LoadLock(t)
    \/ \E t \in Threads : LoadDecode(t)

-----------------------------------------------------------------------------
(* The store at pointer granularity (specification SpecHeap).               *)
(* Storage.records is map[string]map[string]*dns.Record: the index holds     *)
(* addresses, and the Records live on the heap.  One Storage, one caller;    *)
(* the caller keeps the mapping returned by ListRecords or                   *)
(* ListRecordsByDomain and may mutate it and the Records it points to.       *)

NumAddrs == 5
Addrs == 1..NumAddrs

NoHeld == [kind |-> "none", map |-> EmptyIndex]

\* Addresses reachable from the index or from the caller's mapping.
AddrsOf(m) == {m[d][n] : <<d, n>> \in {k \in Keys : HasRecord(m, k[1], k[2])}}
LiveAddrs(idx, held) == AddrsOf(idx) \cup AddrsOf(held.map)
FreeAddrs(idx, held) == Addrs \ LiveAddrs(idx, held)

\* The garbage collector: an object nothing points to is gone.
Collect(h, idx, held) ==
    [a \in Addrs |-> IF a \in LiveAddrs(idx, held) THEN h[a] ELSE NoRecord]

\* The Records a pointer mapping denotes.
Deref(h, m) == [d \in DOMAIN m |-> [n \in DOMAIN m[d] |-> h[m[d][n]]]]

StoreView == Deref(hHeap, hIndex)
HeldView == Deref(hHeap, hHeld.map)

\* save() of a single process: either the whole document replaces the file or
\* the file stays as it was and the error is returned.
HeapSave(view) ==
    \/ hDisk' = FullContent(view) /\ hRet' = "ok"
    \/ hDisk' = hDisk /\ hRet' = "save"

\* SetRecord(record *dns.Record): the caller's object itself is stored.
HeapSetRecord(r) ==
    /\ UNCHANGED notHeap
    /\ IF Validated[r] # ""
       THEN hRet' = "invalid" /\ UNCHANGED <<hHeap, hIndex, hHeld, hDisk>>
       ELSE LET a == CHOOSE x \in FreeAddrs(hIndex, hHeld) : TRUE
            IN  /\ FreeAddrs(hIndex, hHeld) # {}
                /\ hIndex' = PutAt(hIndex, r.domain, r.name, a)
                /\ hHeap' = Collect([hHeap EXCEPT ![a] = Stored(r)], hIndex', hHeld)
                /\ hHeld' = hHeld
                /\ HeapSave(Deref(hHeap', hIndex'))

HeapDeleteRecord(d, n) ==
    /\ UNCHANGED notHeap
    /\ IF ~HasRecord(hIndex, d, n)
       THEN hRet' = "notfound" /\ UNCHANGED <<hHeap, hIndex, hHeld, hDisk>>
       ELSE /\ hIndex' = RemoveRecord(hIndex, d, n)
            /\ hHeap' = Collect(hHeap, hIndex', hHeld)
            /\ hHeld' = hHeld
            /\ HeapSave(Deref(hHeap', hIndex'))

\* recordCopy := *record; result[domain][name] = &recordCopy
\* Every listed Record gets an object of its own.
KeysOf(m) == {k \in Keys : HasRecord(m, k[1], k[2])}
CopyAddrsAliased(m, free) == [k \in KeysOf(m) |-> m[k[1]][k[2]]]
CopyAddrs(m, free) ==
    CHOOSE f \in [KeysOf(m) -> free] : \A j, k \in KeysOf(m) : j # k => f[j] # f[k]

Listing(m, h, free) ==
    LET f == CopyAddrs(m, free)
    IN  [map  |-> [d \in DOMAIN m |-> [n \in DOMAIN m[d] |-> f[<<d, n>>]]],
         heap |-> [a \in Addrs |->
                     IF \E k \in KeysOf(m) : f[k] = a
                     THEN h[m[(CHOOSE k \in KeysOf(m) : f[k] = a)[1]]
                            [(CHOOSE k \in KeysOf(m) : f[k] = a)[2]]]
                     ELSE h[a]]]

HeapListRecords ==
    /\ UNCHANGED notHeap
    /\ LET free == FreeAddrs(hIndex, NoHeld)
           l    == Listing(hIndex, Collect(hHeap, hIndex, NoHeld), free)
       IN  /\ Cardinality(free) >= Cardinality(KeysOf(hIndex))
           /\ hHeld' = [kind |-> "all", map |-> l.map]
           /\ hHeap' = l.heap
    /\ UNCHANGED <<hIndex, hDisk, hRet>>

HeapListRecordsByDomain(d) ==
    /\ UNCHANGED notHeap
    /\ LET sub  == IF HasDomain(hIndex, d) THEN [x \in {d} |-> hIndex[d]] ELSE EmptyIndex
           free == FreeAddrs(hIndex, NoHeld)
           l    == Listing(sub, Collect(hHeap, hIndex, NoHeld), free)
       IN  /\ Cardinality(free) >= Cardinality(KeysOf(sub))
           /\ hHeld' = [kind |-> "domain", map |-> l.map]
           /\ hHeap' = l.heap
    /\ UNCHANGED <<hIndex, hDisk, hRet>>

\* a GetRecord that hands out a copy of the Record
CopyOfStored(idx, d, n, free) == CHOOSE a \in free : TRUE

\* return record, nil: the pointer that s.records holds
PointerToStored(idx, d, n, free) == idx[d][n]

\* GetRecord: the caller holds what it returns, which is the pointer the caller
\* of SetRecord passed in (s.records[record.Domain][record.Name] = record)
HeapGetRecord(d, n) ==
    /\ UNCHANGED notHeap
    /\ IF ~HasRecord(hIndex, d, n)
       THEN hHeld' = NoHeld /\ hHeap' = Collect(hHeap, hIndex, NoHeld)
       ELSE LET a == PointerToStored(hIndex, d, n, FreeAddrs(hIndex, NoHeld))
            IN  /\ hHeld' = [kind |-> "ref", map |-> PutAt(EmptyIndex, d, n, a)]
                /\ hHeap' = Collect([hHeap EXCEPT ![a] = hHeap[hIndex[d][n]]],
                                    hIndex, hHeld')
    /\ UNCHANGED <<hIndex, hDisk, hRet>>

\* The caller writes a field (the ttl) of the Record whose pointer GetRecord
\* returned.
CallerSetThroughPointer(d, n) ==
    /\ UNCHANGED notHeap
    /\ hHeld.kind = "ref"
    /\ HasRecord(hHeld.map, d, n)
    /\ hHeap' = [hHeap EXCEPT ![hHeld.map[d][n]] = [@ EXCEPT !.ttl = 7]]
    /\ hHeap' # hHeap
    /\ UNCHANGED <<hIndex, hHeld, hDisk, hRet>>

\* The caller writes a field of a Record through the pointer it was given.
CallerSetField(d, n) ==
    /\ UNCHANGED notHeap
    /\ HasRecord(hHeld.map, d, n)
    /\ \E f \in {"ttl", "value"} :
         hHeap' = [hHeap EXCEPT ![hHeld.map[d][n]] =
                     CASE f = "ttl"   -> [@ EXCEPT !.ttl = 7]
                       [] f = "value" -> [@ EXCEPT !.value = Host1]
                       [] f = "name"  -> [@ EXCEPT !.name = "api"]]
    /\ hHeap' # hHeap
    /\ UNCHANGED <<hIndex, hHeld, hDisk, hRet>>

\* The caller deletes an entry of the mapping it was given.
CallerRemoveEntry(d, n) ==
    /\ UNCHANGED notHeap
    /\ HasRecord(hHeld.map, d, n)
    /\ hHeld' = [hHeld EXCEPT !.map = DeleteEntry(@, d, n)]
    /\ hHeap' = Collect(hHeap, hIndex, hHeld')
    /\ UNCHANGED <<hIndex, hDisk, hRet>>

\* The caller puts a Record of its own into the mapping it was given.
CallerAddEntry(d, n) ==
    /\ UNCHANGED notHeap
    /\ hHeld.kind # "none"
    /\ ~HasRecord(hHeld.map, d, n)
    /\ FreeAddrs(hIndex, hHeld) # {}
    /\ LET a == CHOOSE x \in FreeAddrs(hIndex, hHeld) : TRUE
       IN  /\ hHeld' = [hHeld EXCEPT !.map = PutAt(@, d, n, a)]
           /\ hHeap' = [hHeap EXCEPT ![a] = Rec(n, d, "A", IP1, 7)]
    /\ UNCHANGED <<hIndex, hDisk, hRet>>

\* The caller drops the mapping.
CallerDrop ==
    /\ UNCHANGED notHeap
    /\ hHeld.kind # "none"
    /\ hHeld' = NoHeld
    /\ hHeap' = Collect(hHeap, hIndex, hHeld')
    /\ UNCHANGED <<hIndex, hDisk, hRet>>

StoreStep ==
    \/ \E r \in InputRecords : HeapSetRecord(r)
    \/ \E k \in Keys : HeapDeleteRecord(k[1], k[2])

CallerStep ==
    \/ \E k \in Keys : CallerSetField(k[1], k[2])
    \/ \E k \in Keys : CallerRemoveEntry(k[1], k[2])
    \/ \E k \in Keys : CallerAddEntry(k[1], k[2])
    \/ CallerDrop

HeapInit ==
    /\ hHeap = [a \in Addrs |-> NoRecord]
    /\ hIndex = EmptyIndex
    /\ hHeld = NoHeld
    /\ hDisk = [kind |-> "absent"]
    /\ hRet = ""

-----------------------------------------------------------------------------
(* The process manager (specifications SpecMgr and SpecMgrFair).            *)
(* One Manager, its caller (main), one monitor goroutine per managed        *)
(* process, the context watcher that exec.CommandContext starts with every   *)
(* command, the child processes and the operating system's signal.          *)

Children == {"netbird", "coredns"}

\* timeout := 2 * time.Second, polled every 500 * time.Millisecond: the
\* deadline in units of the polling interval
PollsPerDeadline == 4

StopPcs == {"stop_term", "stop_poll", "stop_kill"}

\* the children in m.processes
Managed(list) == {list[i] : i \in 1..Len(list)}

\* one signal that was sent, or whose sending failed: to which child, which
\* signal, by whom ("stop": Manager.Stop, "ctx": the context watcher of the
\* command, "start": StartNetBird), and whether the call returned nil
Sent(c, sig, by, ok) == [child |-> c, sig |-> sig, by |-> by, ok |-> ok]

MgrInit ==
    /\ mList = <<>>
    /\ mRunning = [c \in Children |-> FALSE]
    /\ mCancelled = FALSE
    /\ osProc = [c \in Children |-> "none"]
    /\ mon = [c \in Children |-> "none"]
    /\ mWatch = [c \in Children |-> "none"]
    /\ mainPc = "setup"
    /\ mCalls = {}
    /\ mRet = "none"
    /\ sigArrived = FALSE
    /\ snap = <<>>
    /\ pos = 0
    /\ elapsed = 0
    /\ polls = 0
    /\ graceful = FALSE
    /\ mSent = {}

\* cmd.Start() of a command made by exec.CommandContext(m.ctx, ...): it returns
\* ctx.Err() when the context is already done
StartRefusedNever == FALSE
StartRefused == mCancelled

\* os.Process.Signal and os.Process.Kill return an error once the process has
\* been waited for, and may fail in the kernel
MustFail(c) == mon[c] \in {"reaped", "done"}

\* the running field of a Process as it is constructed: running: true
RunningAtStartUnset == FALSE
RunningAtStart == TRUE

\* m.processes = append(m.processes, process) with running: true, and
\* go m.monitorProcess(process)
Adopt(c) ==
    /\ mList' = Append(mList, c)
    /\ mRunning' = [mRunning EXCEPT ![c] = RunningAtStart]
    /\ mon' = [mon EXCEPT ![c] = "waiting"]

\* StartCoreDNS
StartCoreDNS ==
    /\ UNCHANGED notMgr
    /\ mainPc = "setup"
    /\ "coredns" \notin mCalls
    /\ mCalls' = mCalls \cup {"coredns"}
    /\ \/ /\ StartRefused
          /\ mRet' = "error" /\ mainPc' = "fatal"
          /\ UNCHANGED <<mList, mRunning, mon, osProc, mWatch>>
       \/ /\ ~StartRefused
          /\ \/ /\ mRet' = "error" /\ mainPc' = "fatal"
                /\ UNCHANGED <<mList, mRunning, mon, osProc, mWatch>>
             \/ /\ osProc' = [osProc EXCEPT !["coredns"] = "alive"]
                /\ mWatch' = [mWatch EXCEPT !["coredns"] = "armed"]
                /\ Adopt("coredns")
                /\ mRet' = "ok" /\ mainPc' = "setup"
    /\ UNCHANGED <<mCancelled, sigArrived, snap, pos, elapsed, polls, graceful, mSent>>

\* StartNetBird up to the first sleep: the two service commands, whose errors
\* are ignored, and cmd.Start() of "netbird up"
StartNetBird ==
    /\ UNCHANGED notMgr
    /\ mainPc = "setup"
    /\ "netbird" \notin mCalls
    /\ mCalls' = mCalls \cup {"netbird"}
    /\ \/ /\ StartRefused
          /\ mRet' = "error" /\ mainPc' = "fatal"
          /\ UNCHANGED <<osProc, mWatch>>
       \/ /\ ~StartRefused
          /\ \/ /\ mRet' = "error" /\ mainPc' = "fatal"
                /\ UNCHANGED <<osProc, mWatch>>
             \/ /\ osProc' = [osProc EXCEPT !["netbird"] = "alive"]
                /\ mWatch' = [mWatch EXCEPT !["netbird"] = "armed"]
                /\ mRet' = "none" /\ mainPc' = "nb_check"
    /\ UNCHANGED <<mList, mRunning, mon, mCancelled, sigArrived, snap, pos, elapsed,
                   polls, graceful, mSent>>

\* StartNetBird after the first sleep: the unknown-flag check with its Kill,
\* the Signal(0) check, then the append and the start of the monitor
NetBirdCheck ==
    /\ UNCHANGED notMgr
    /\ mainPc = "nb_check"
    /\ \/ /\ mSent' = mSent \cup {Sent("netbird", "KILL", "start", TRUE)}
          /\ mRet' = "error" /\ mainPc' = "fatal"
          /\ UNCHANGED <<mList, mRunning, mon>>
       \/ /\ osProc["netbird"] # "alive"
          /\ mRet' = "error" /\ mainPc' = "fatal"
          /\ UNCHANGED <<mList, mRunning, mon, mSent>>
       \/ /\ Adopt("netbird")
          /\ mRet' = "none" /\ mainPc' = "nb_final"
          /\ UNCHANGED mSent
    /\ UNCHANGED <<mCancelled, osProc, mWatch, mCalls, sigArrived, snap, pos, elapsed,
                   polls, graceful>>

\* StartNetBird after the second sleep: the final Signal(0) check
NetBirdFinal ==
    /\ UNCHANGED notMgr
    /\ mainPc = "nb_final"
    /\ \/ /\ osProc["netbird"] # "alive"
          /\ mRet' = "error" /\ mainPc' = "fatal"
       \/ /\ ~MustFail("netbird")
          /\ mRet' = "ok" /\ mainPc' = "setup"
    /\ UNCHANGED <<mList, mRunning, mon, mCancelled, osProc, mWatch, mCalls, sigArrived,
                   snap, pos, elapsed, polls, graceful, mSent>>
-----------------------------------------------------------------------------
(* Record.Validate on its own (specification SpecValidate) *)

NotValidated == "none"

\* the strings handed in as the value of a record
ValueInputs ==
    { <<>>,
      IP1,
      Host1,
      <<"n", "o", "t", "-", "a", "n", "-", "i", "p">>,
      <<"-", "b", "a", "d", "-", ".", "e", "x", "a", "m", "p", "l", "e", ".", "c", "o", "m">>,
      <<":", ":", "f", "f", "f", "f", ":", "1", "0", ".", "0", ".", "0", ".", "5">>,
      <<"w", "e", "b", ".", "e", "x", ".">>,
      <<"a", ".", ".", "b">>,
      <<"a", "_", "b">>,
      <<"a", "b", "-">>,
      <<"2", "5", "6", ".", "0", ".", "0", ".", "1">>,
      <<"1", ".", "2", ".", "3">>,
      <<"1", "0", ".", "0", ".", "0", ".", "5", ".">> }

ValidateInputs ==
    {Rec(n, d, t, v, 0) : n \in {"", "web"}, d \in {"", "example.com"},
                          t \in {"", "A", "CNAME", "MX"}, v \in ValueInputs}

\* ServeDNS has not been called
NotServed == [kind |-> "none"]

\* the plugin when no query has come in: New over a missing records file
DnsInit ==
    /\ dIndex = EmptyIndex
    /\ dReq = [name |-> <<".">>, qtype |-> "A"]
    /\ dOut = NotServed

-----------------------------------------------------------------------------
(* Storage.mu (specification SpecLock): the goroutines of one process in   *)
(* the calls of one Storage, at the granularity of the lock operations.    *)

\* calls begun in one behaviour
MaxCalls == 4

Goroutines == {"g1", "g2", "g3"}
NoGoroutine == "none"

ReadCalls == {"get", "list", "listByDomain"}
WriteCalls == {"set", "delete", "reload"}

\* every call takes the read lock
LockKindShared(call) == "r"

\* GetRecord, ListRecords and ListRecordsByDomain call s.mu.RLock(), SetRecord,
\* DeleteRecord and Reload call s.mu.Lock()
LockKind(call) == IF call \in WriteCalls THEN "w" ELSE "r"

\* where a call stands once it holds the lock: Reload goes straight into load,
\* every other call looks at the index first
AfterLock(call) == IF call = "reload" THEN "io" ELSE "access"

LockInit ==
    /\ lkPc = [g \in Goroutines |-> "idle"]
    /\ lkCall = [g \in Goroutines |-> "none"]
    /\ lkReaders = {}
    /\ lkWriter = NoGoroutine
    /\ lkCalls = 0

\* periodicRefresh as its goroutine starts, over a missing records file
RefInit ==
    /\ rfPc = "start"
    /\ rfBuf = 0
    /\ rfTicks = 0
    /\ rfReloads = 0
    /\ rfAtTick = 0
    /\ rfErr = "none"
    /\ rfLog = 0
    /\ rfFile = [kind |-> "absent"]

-----------------------------------------------------------------------------
(* The states before the first step of the other specifications *)

NoRequest == [method |-> "none"]
NoResponse == [status |-> 0]

\* the API server before its first request, over a missing records file
ApiInit ==
    /\ aMem = EmptyIndex
    /\ aFile = [kind |-> "absent"]
    /\ aReq = NoRequest
    /\ aResp = NoResponse
    /\ aErr = "none"
    /\ aCount = 0

ValInit == vIn = RecWeb /\ vOut = NotValidated

\* record.Validate()
ValidateCall ==
    /\ vOut = NotValidated
    /\ vOut' = Validate(vIn)
    /\ vIn' = vIn
    /\ UNCHANGED notVal

InitValidate ==
    /\ StoreInitWith([kind |-> "absent"])
    /\ HeapInit
    /\ MgrInit
    /\ DnsInit
    /\ ApiInit
    /\ LockInit
    /\ RefInit
    /\ vIn \in ValidateInputs
    /\ vOut = NotValidated

NextValidate == ValidateCall

SpecValidate == InitValidate /\ [][NextValidate]_vars

Init == StoreInit /\ HeapInit /\ ValInit /\ MgrInit /\ DnsInit /\ ApiInit /\ LockInit /\ RefInit

\* a child process exits by itself or because of a signal it got: with status
\* 0, or with another status or by a signal (Wait then returns an error)
ChildExit(c) ==
    /\ UNCHANGED notMgr
    /\ osProc[c] = "alive"
    /\ \E how \in {"exit0", "exitErr"} : osProc' = [osProc EXCEPT ![c] = how]
    /\ UNCHANGED <<mList, mRunning, mCancelled, mon, mWatch, mainPc, mCalls, mRet,
                   sigArrived, snap, pos, elapsed, polls, graceful, mSent>>

\* the goroutine exec.CommandContext starts with the command: once the context
\* is done, and the command has not been waited for, it calls Process.Kill
CtxKill(c) ==
    /\ UNCHANGED notMgr
    /\ mWatch[c] = "armed"
    /\ mCancelled
    /\ ~MustFail(c)
    /\ mWatch' = [mWatch EXCEPT ![c] = "fired"]
    /\ mSent' = mSent \cup {Sent(c, "KILL", "ctx", TRUE)}
    /\ UNCHANGED <<mList, mRunning, mCancelled, osProc, mon, mainPc, mCalls, mRet,
                   sigArrived, snap, pos, elapsed, polls, graceful>>

\* process.cmd.Wait() returns once the process has exited
WaitReturnsAtOnce(c) == TRUE
WaitReturned(c) == osProc[c] \in {"exit0", "exitErr"}

\* monitorProcess: process.cmd.Wait() returns, process.running = false
MonitorReap(c) ==
    /\ UNCHANGED notMgr
    /\ mon[c] = "waiting"
    /\ WaitReturned(c)
    /\ mon' = [mon EXCEPT ![c] = "reaped"]
    /\ mRunning' = [mRunning EXCEPT ![c] = FALSE]
    /\ UNCHANGED <<mList, mCancelled, osProc, mWatch, mainPc, mCalls, mRet, sigArrived,
                   snap, pos, elapsed, polls, graceful, mSent>>

\* if err != nil && m.ctx.Err() == nil { m.cancel() }
NeverCancels(c) == FALSE
ShouldCancel(c) == osProc[c] = "exitErr" /\ ~mCancelled

MonitorFinish(c) ==
    /\ UNCHANGED notMgr
    /\ mon[c] = "reaped"
    /\ mon' = [mon EXCEPT ![c] = "done"]
    /\ mCancelled' = (mCancelled \/ ShouldCancel(c))
    /\ UNCHANGED <<mList, mRunning, osProc, mWatch, mainPc, mCalls, mRet, sigArrived,
                   snap, pos, elapsed, polls, graceful, mSent>>

\* SIGTERM or SIGINT is delivered to the supervisor
OsSignal ==
    /\ UNCHANGED notMgr
    /\ ~sigArrived
    /\ mainPc \in {"setup", "nb_check", "nb_final", "run"}
    /\ sigArrived' = TRUE
    /\ UNCHANGED <<mList, mRunning, mCancelled, osProc, mon, mWatch, mainPc, mCalls, mRet,
                   snap, pos, elapsed, polls, graceful, mSent>>

\* main calls RunWithSignalHandling, which blocks in the select
Run ==
    /\ UNCHANGED notMgr
    /\ mainPc = "setup"
    /\ mCalls # {}
    /\ mainPc' = "run"
    /\ mRet' = "none"
    /\ UNCHANGED <<mList, mRunning, mCancelled, osProc, mon, mWatch, mCalls, sigArrived,
                   snap, pos, elapsed, polls, graceful, mSent>>

\* the select of RunWithSignalHandling: a signal is in sigChan or m.ctx is done
SelectReadyAtOnce == TRUE
SelectReady == sigArrived \/ mCancelled

\* the select returns on a signal or on ctx.Done(); Stop begins: m.cancel()
\* and the copy of m.processes
StopBegin ==
    /\ UNCHANGED notMgr
    /\ mainPc = "run"
    /\ SelectReady
    /\ mCancelled' = TRUE
    /\ snap' = mList
    /\ pos' = 1
    /\ mainPc' = "stop_term"
    /\ UNCHANGED <<mList, mRunning, osProc, mon, mWatch, mCalls, mRet, sigArrived,
                   elapsed, polls, graceful, mSent>>

\* where a pass over the processes goes on after a Signal or Kill that failed
AbortPass(i, n) == n + 1
AfterFailure(i, n) == i + 1

\* one iteration of a pass of Stop over its copy of the processes: a process
\* whose running flag is set is sent sig; the error of the call is only logged
Pass(sig) ==
    LET c == snap[pos]
    IN  IF ~mRunning[c]
        THEN pos' = pos + 1 /\ UNCHANGED mSent
        ELSE \/ /\ ~MustFail(c)
                /\ mSent' = mSent \cup {Sent(c, sig, "stop", TRUE)}
                /\ pos' = pos + 1
             \/ /\ mSent' = mSent \cup {Sent(c, sig, "stop", FALSE)}
                /\ pos' = AfterFailure(pos, Len(snap))

\* the SIGTERM pass; after it the deadline is set
StopTerm ==
    /\ UNCHANGED notMgr
    /\ mainPc = "stop_term"
    /\ IF pos <= Len(snap)
       THEN Pass("TERM") /\ UNCHANGED <<mainPc, elapsed>>
       ELSE mainPc' = "stop_poll" /\ elapsed' = 0 /\ UNCHANGED <<pos, mSent>>
    /\ UNCHANGED <<mList, mRunning, mCancelled, osProc, mon, mWatch, mCalls, mRet,
                   sigArrived, snap, polls, graceful>>

\* time.Sleep(500 * time.Millisecond) lasts one polling interval or longer
SleepFrozen(e) == {e}
SleepUntil(e) == (e + 1)..PollsPerDeadline

\* one turn of the polling loop: for time.Now().Before(deadline) { ... }
StopPoll ==
    /\ UNCHANGED notMgr
    /\ mainPc = "stop_poll"
    /\ IF elapsed >= PollsPerDeadline
       THEN /\ mainPc' = "stop_kill" /\ pos' = 1
            /\ UNCHANGED <<elapsed, polls, graceful, mRet>>
       ELSE IF \A i \in 1..Len(snap) : ~mRunning[snap[i]]
       THEN /\ graceful' = TRUE
            /\ mainPc' = "done" /\ mRet' = "ok"
            /\ UNCHANGED <<elapsed, polls, pos>>
       ELSE /\ \E e \in SleepUntil(elapsed) : elapsed' = e
            /\ polls' = IF polls <= PollsPerDeadline THEN polls + 1 ELSE polls
            /\ UNCHANGED <<mainPc, pos, graceful, mRet>>
    /\ UNCHANGED <<mList, mRunning, mCancelled, osProc, mon, mWatch, mCalls, sigArrived,
                   snap, mSent>>

\* the Kill pass, then Stop and RunWithSignalHandling return nil
StopKill ==
    /\ UNCHANGED notMgr
    /\ mainPc = "stop_kill"
    /\ IF pos <= Len(snap)
       THEN Pass("KILL") /\ UNCHANGED <<mainPc, mRet>>
       ELSE mainPc' = "done" /\ mRet' = "ok" /\ UNCHANGED <<pos, mSent>>
    /\ UNCHANGED <<mList, mRunning, mCancelled, osProc, mon, mWatch, mCalls, sigArrived,
                   snap, elapsed, polls, graceful>>

InitMgr == StoreInitWith([kind |-> "absent"]) /\ HeapInit /\ ValInit /\ MgrInit /\ DnsInit /\ ApiInit /\ LockInit /\ RefInit

NextMgr ==
    \/ StartNetBird
    \/ NetBirdCheck
    \/ NetBirdFinal
    \/ StartCoreDNS
    \/ Run
    \/ OsSignal
    \/ \E c \in Children : ChildExit(c)
    \/ \E c \in Children : CtxKill(c)
    \/ \E c \in Children : MonitorReap(c)
    \/ \E c \in Children : MonitorFinish(c)
    \/ StopBegin
    \/ StopTerm
    \/ StopPoll
    \/ StopKill

SpecMgr == InitMgr /\ [][NextMgr]_vars

\* the goroutines of the supervisor are scheduled; the children and the
\* operating system owe nothing
MgrFairness ==
    /\ WF_vars(StopBegin) /\ WF_vars(StopTerm) /\ WF_vars(StopPoll) /\ WF_vars(StopKill)
    /\ \A c \in Children : WF_vars(MonitorReap(c)) /\ WF_vars(MonitorFinish(c))

SpecMgrFair == InitMgr /\ [][NextMgr]_vars /\ MgrFairness


Spec == Init /\ [][Next]_vars

InitHeap == StoreInitWith([kind |-> "absent"]) /\ HeapInit /\ ValInit /\ MgrInit /\ DnsInit /\ ApiInit /\ LockInit /\ RefInit

NextHeap ==
    \/ \E r \in InputRecords : HeapSetRecord(r)
    \/ \E k \in Keys : HeapDeleteRecord(k[1], k[2])
    \/ HeapListRecords
    \/ \E d \in Domains : HeapListRecordsByDomain(d)
    \/ \E k \in Keys : CallerSetField(k[1], k[2])
    \/ \E k \in Keys : CallerRemoveEntry(k[1], k[2])
    \/ \E k \in Keys : CallerAddEntry(k[1], k[2])
    \/ CallerDrop

SpecHeap == InitHeap /\ [][NextHeap]_vars

\* The same store with a caller that keeps the pointers of GetRecord and
\* SetRecord instead of listings (specification SpecPointer)
NextPointer ==
    \/ \E r \in InputRecords : HeapSetRecord(r)
    \/ \E k \in Keys : HeapDeleteRecord(k[1], k[2])
    \/ HeapListRecords
    \/ \E k \in Keys : HeapGetRecord(k[1], k[2])
    \/ \E k \in Keys : CallerSetThroughPointer(k[1], k[2])
    \/ CallerDrop

SpecPointer == InitHeap /\ [][NextPointer]_vars

-----------------------------------------------------------------------------
(* The CoreDNS plugin (specification SpecDns): NetBird.ServeDNS over the   *)
(* plugin's store. Here the names, domains and values are sequences of     *)
(* characters.                                                             *)

LowerCase ==
    <<"a", "b", "c", "d", "e", "f", "g", "h", "i", "j", "k", "l", "m", "n", "o", "p",
      "q", "r", "s", "t", "u", "v", "w", "x", "y", "z">>
UpperCase ==
    <<"A", "B", "C", "D", "E", "F", "G", "H", "I", "J", "K", "L", "M", "N", "O", "P",
      "Q", "R", "S", "T", "U", "V", "W", "X", "Y", "Z">>

\* strings.ToLower
ToLower(s) ==
    [i \in 1..Len(s) |->
        IF \E k \in 1..Len(UpperCase) : UpperCase[k] = s[i]
        THEN LowerCase[CHOOSE k \in 1..Len(UpperCase) : UpperCase[k] = s[i]]
        ELSE s[i]]

\* a request name that is left as it came in
RequestNameAsSent(q) == q

\* state.Name(): the name of the question, lower-cased
RequestName(q) == ToLower(q)

\* strings.HasSuffix
HasSuffix(s, suf) ==
    Len(s) >= Len(suf) /\ SubSeq(s, Len(s) - Len(suf) + 1, Len(s)) = suf

\* strings.Join(parts, ".")
RECURSIVE JoinDot(_)
JoinDot(parts) ==
    IF Len(parts) = 0 THEN <<>>
    ELSE IF Len(parts) = 1 THEN parts[1]
    ELSE parts[1] \o <<".">> \o JoinDot(Tail(parts))

\* parts := strings.Split(strings.TrimSuffix(queryName, "."), "."); the first
\* label is the name, the other labels are the domain
SplitName(q) ==
    LET parts == SplitAt(TrimDot(q), ".")
    IN  [ok |-> Len(parts) >= 2, name |-> parts[1], domain |-> JoinDot(Tail(parts))]

\* a target that is returned as it is stored
AsStored(v) == v

\* if !strings.HasSuffix(target, ".") { target += "." }
DotTerminated(v) == IF HasSuffix(v, <<".">>) THEN v ELSE v \o <<".">>

NoTarget == [ok |-> FALSE, target |-> <<>>]

\* NetBird.ResolveCNAME (n.storage is set by New)
ResolveCNAME(idx, q) ==
    LET k == SplitName(q)
    IN  IF ~k.ok THEN NoTarget
        ELSE LET g == GetRecord(idx, k.domain, k.name)
             IN  IF g.err # "ok" THEN NoTarget
                 ELSE IF g.val.type = "CNAME"
                      THEN [ok |-> TRUE, target |-> DotTerminated(g.val.value)]
                      ELSE NoTarget

\* a nil net.IP
NilIP == <<>>

\* net.ParseIP, for the values of the model (IPv4 literals, IPv4-mapped
\* literals and strings that are no address): the address in dotted form
ParseIP(v) ==
    IF IsDottedQuad(v) THEN v
    ELSE IF IsV4Mapped(v) THEN SubSeq(v, 8, Len(v))
    ELSE NilIP

NoCustom == [ok |-> FALSE, ipv4 |-> NilIP]

\* NetBird.lookupCustomRecord
lookupCustomRecord(idx, q) ==
    LET k == SplitName(q)
    IN  IF ~k.ok THEN NoCustom
        ELSE LET g == GetRecord(idx, k.domain, k.name)
             IN  IF g.err # "ok" THEN NoCustom
                 ELSE IF g.val.type = "A" THEN [ok |-> TRUE, ipv4 |-> ParseIP(g.val.value)]
                 ELSE IF g.val.type = "CNAME" THEN NoCustom
                 ELSE [ok |-> TRUE, ipv4 |-> NilIP]

\* Ttl of the synthesized answers
AnswerTTL == 60

QTypes == {"A", "CNAME", "AAAA"}

\* the switch with the case of the other address type
AnsweredWithAAAA == {"AAAA"}

\* switch state.QType() { case dns.TypeA: ... }
AnsweredWithA == {"A"}

\* plugin.NextOrFailure: the query goes to the next plugin, nothing is written
NextPlugin == [kind |-> "next"]
\* w.WriteMsg(m) and the return that follows it
Written(m, writeOk) ==
    [kind |-> "answer", msg |-> m, rcode |-> IF writeOk THEN "NOERROR" ELSE "SERVFAIL"]

\* an answer that carries the ttl of the record it is built from
TtlOfRecord(idx, q) == GetRecord(idx, SplitName(q).domain, SplitName(q).name).val.ttl

\* Hdr: dns.RR_Header{..., Ttl: 60}, in both replies
TtlOfAnswer(idx, q) == AnswerTTL

CNAMEAnswer(q, target, ttl) ==
    [authoritative |-> TRUE, name |-> q, rrtype |-> "CNAME", ttl |-> ttl,
     target |-> target]
AAnswer(q, ip, ttl) ==
    [authoritative |-> TRUE, name |-> q, rrtype |-> "A", ttl |-> ttl, a |-> ip]

\* a test that matches a served domain and the names under it only
MatchesDomainByLabel(q, domains) ==
    \E i \in 1..Len(domains) :
        q = domains[i] \o <<".">> \/ HasSuffix(q, <<".">> \o domains[i] \o <<".">>)

\* strings.HasSuffix(queryName, domain+".") for one of n.Domains
MatchesDomain(q, domains) ==
    \E i \in 1..Len(domains) : HasSuffix(q, domains[i] \o <<".">>)

\* what ServeDNS does with the question (name, qtype) over the index idx
Serve(idx, domains, name, qtype, writeOk) ==
    LET q == RequestName(name)
        c == ResolveCNAME(idx, q)
        a == lookupCustomRecord(idx, q)
    IN  IF ~MatchesDomain(q, domains) THEN NextPlugin
        ELSE IF qtype \in {"CNAME", "A"} /\ c.ok
             THEN Written(CNAMEAnswer(q, c.target, TtlOfAnswer(idx, q)), writeOk)
        ELSE IF a.ok /\ qtype \in AnsweredWithA /\ a.ipv4 # NilIP
             THEN Written(AAnswer(q, a.ipv4, TtlOfAnswer(idx, q)), writeOk)
        ELSE NextPlugin

L_example == <<"e", "x", "a", "m", "p", "l", "e">>
L_com == <<"c", "o", "m">>
L_org == <<"o", "r", "g">>
L_api == <<"a", "p", "i">>
L_Api == <<"A", "p", "i">>
L_web == <<"w", "e", "b">>
L_www == <<"w", "w", "w">>
L_db == <<"d", "b">>
L_Db == <<"D", "b">>
L_v6 == <<"v", "6">>
L_bad == <<"b", "a", "d">>
L_nope == <<"n", "o", "p", "e">>
L_notexample == <<"n", "o", "t">> \o L_example

ExampleCom == JoinDot(<<L_example, L_com>>)
WebExampleCom == JoinDot(<<L_web, L_example, L_com>>)
NotExampleCom == JoinDot(<<L_notexample, L_com>>)
IPMapped == <<":", ":", "f", "f", "f", "f", ":">> \o IP1

\* n.Domains, from the Corefile
ServedDomains == <<ExampleCom>>

\* the records the plugin's store may hold: stored through the API (whose
\* validation looks at the value only) or, the last one, read from a records
\* file that was written by hand
DnsRecords ==
    { Rec(L_api, ExampleCom, "CNAME", WebExampleCom, 30),
      Rec(L_www, ExampleCom, "CNAME", WebExampleCom \o <<".">>, DefaultTTL),
      Rec(L_Api, ExampleCom, "CNAME", WebExampleCom, DefaultTTL),
      Rec(L_web, ExampleCom, "A", IP1, DefaultTTL),
      Rec(L_Db, ExampleCom, "A", IP1, DefaultTTL),
      Rec(L_v6, ExampleCom, "A", IPMapped, DefaultTTL),
      Rec(L_web, NotExampleCom, "A", IP1, 300),
      Rec(L_bad, ExampleCom, "A", NotAnIP, DefaultTTL) }

\* the index that holds the records of S
IndexOf(S) ==
    [d \in {r.domain : r \in S} |->
        [n \in {r.name : r \in {x \in S : x.domain = d}} |->
            CHOOSE r \in S : r.domain = d /\ r.name = n]]

\* the names asked for, as they come in
QueryNames ==
    { JoinDot(<<l, L_example, L_com, <<>>>>) :
          l \in {L_api, L_Api, L_web, L_www, L_db, L_Db, L_v6, L_bad, L_nope} }
    \cup { JoinDot(<<L_example, L_com, <<>>>>), JoinDot(<<L_web, L_example, L_org, <<>>>>),
           JoinDot(<<L_web, L_notexample, L_com, <<>>>>) }

Queries == [name : QueryNames, qtype : QTypes]

\* NetBird.ServeDNS
ServeDNS ==
    /\ dOut = NotServed
    /\ \E writeOk \in BOOLEAN :
           dOut' = Serve(dIndex, ServedDomains, dReq.name, dReq.qtype, writeOk)
    /\ UNCHANGED <<dIndex, dReq>>
    /\ UNCHANGED notDns

InitDns ==
    /\ StoreInitWith([kind |-> "absent"])
    /\ HeapInit
    /\ ValInit
    /\ MgrInit
    /\ ApiInit
    /\ LockInit
    /\ RefInit
    /\ dIndex \in {IndexOf(S) : S \in SUBSET DnsRecords}
    /\ dReq \in Queries
    /\ dOut = NotServed

NextDns == ServeDNS

SpecDns == InitDns /\ [][NextDns]_vars

-----------------------------------------------------------------------------
(* The management API (specification SpecApi): the handlers of             *)
(* internal/api/handlers.go behind the ServeMux of Server.Start, over one  *)
(* Storage. A path is the sequence of its segments: "/a/b" is <<"a", "b">> *)
(* and "/a/b/" is <<"a", "b", "">>.                                        *)

\* requests served in one behaviour
MaxRequests == 2

Methods == {"GET", "POST", "PUT", "DELETE", "PATCH"}

HealthPath == <<"health">>
RecordsPath == <<"api", "v1", "records">>
ItemPath(d, n) == RecordsPath \o <<d, n>>

Paths ==
    { HealthPath,
      HealthPath \o <<"">>,
      RecordsPath,
      RecordsPath \o <<"">>,
      ItemPath("example.com", "web"),
      ItemPath("example.com", "api"),
      ItemPath("example.com", "@"),
      RecordsPath \o <<"example.com">>,
      RecordsPath \o <<"example.com", "web", "x">>,
      <<"other">> }

\* request bodies: no JSON, or the JSON of a record (a key that is left out
\* decodes to the zero value)
NoBody == [kind |-> "garbage"]
JsonBody(r) == [kind |-> "json", rec |-> r]
Bodies ==
    { NoBody,
      JsonBody(RecWeb),
      JsonBody(RecApi),
      JsonBody(RecBadIP),
      JsonBody(Rec("", "", "A", IP1, 0)),
      JsonBody(Rec("", "", "CNAME", Host1, 30)) }

Requests == [method : Methods, path : Paths, body : Bodies]

\* strings.HasPrefix(path, "/api/v1/records/")
UnderRecords(path) ==
    Len(path) > Len(RecordsPath) /\ SubSeq(path, 1, Len(RecordsPath)) = RecordsPath

\* strings.Split(strings.TrimPrefix(r.URL.Path, "/api/v1/records/"), "/")
PathParts(path) == SubSeq(path, Len(RecordsPath) + 1, Len(path))

\* if name == "@" { name = "" }
NormalizeName(n) == IF n = "@" THEN "" ELSE n

\* the result of a handler: the status and what the body carries, the store
\* after it and the error of the storage call it made
Result(status, body, idx, file, e) ==
    [status |-> status, body |-> body, mem |-> idx, file |-> file, err |-> e]

\* http.Error(w, msg, status), the store left alone
Refuse(status, idx, file, e) == Result(status, "error", idx, file, e)

\* Storage.SetRecord as one step: validation, TTL default, insertion, save
ApiSetRecord(idx, file, r, saveOk) ==
    IF Validate(r) # "" THEN [err |-> "invalid", mem |-> idx, file |-> file, rec |-> r]
    ELSE LET new == PutRecord(idx, Stored(r))
         IN  [err |-> IF saveOk THEN "ok" ELSE "save",
              mem |-> new,
              file |-> IF saveOk THEN FullContent(new) ELSE file,
              rec |-> Stored(r)]

\* Storage.DeleteRecord as one step: lookup, removal, save
ApiDeleteRecord(idx, file, d, n, saveOk) ==
    IF ~HasRecord(idx, d, n) THEN [err |-> "notfound", mem |-> idx, file |-> file]
    ELSE LET new == RemoveRecord(idx, d, n)
         IN  [err |-> IF saveOk THEN "ok" ELSE "save",
              mem |-> new,
              file |-> IF saveOk THEN FullContent(new) ELSE file]

\* http.Error(w, ..., http.StatusBadRequest) or http.StatusNotFound for every
\* error of the storage call
StatusOfAnyError(e, refused) == refused

HealthHandler(idx, file) == Result(200, [status |-> "ok"], idx, file, "none")

ListRecordsHandler(req, idx, file) ==
    IF req.method # "GET" THEN Refuse(405, idx, file, "none")
    ELSE Result(200, ListRecords(idx), idx, file, "none")

CreateRecordHandler(req, idx, file, saveOk) ==
    IF req.method # "POST" THEN Refuse(405, idx, file, "none")
    ELSE IF req.body.kind # "json" THEN Refuse(400, idx, file, "none")
    ELSE LET s == ApiSetRecord(idx, file, req.body.rec, saveOk)
         IN  IF s.err # "ok" THEN Refuse(StatusOfAnyError(s.err, 400), s.mem, s.file, s.err)
             ELSE Result(201, s.rec, s.mem, s.file, "ok")

\* a handler that stores the record as the body gives it
BodyAsSent(rec, d, n) == rec

\* record.Domain = domain; record.Name = name
OverrideFromURL(rec, d, n) == [rec EXCEPT !.domain = d, !.name = n]

UpdateRecordHandler(req, idx, file, saveOk) ==
    IF req.method # "PUT" THEN Refuse(405, idx, file, "none")
    ELSE IF Len(PathParts(req.path)) # 2 THEN Refuse(400, idx, file, "none")
    ELSE IF req.body.kind # "json" THEN Refuse(400, idx, file, "none")
    ELSE LET r == OverrideFromURL(req.body.rec, PathParts(req.path)[1],
                                  NormalizeName(PathParts(req.path)[2]))
             s == ApiSetRecord(idx, file, r, saveOk)
         IN  IF s.err # "ok" THEN Refuse(StatusOfAnyError(s.err, 400), s.mem, s.file, s.err)
             ELSE Result(200, s.rec, s.mem, s.file, "ok")

DeleteRecordHandler(req, idx, file, saveOk) ==
    IF req.method # "DELETE" THEN Refuse(405, idx, file, "none")
    ELSE IF Len(PathParts(req.path)) # 2 THEN Refuse(400, idx, file, "none")
    ELSE LET s == ApiDeleteRecord(idx, file, PathParts(req.path)[1],
                                  NormalizeName(PathParts(req.path)[2]), saveOk)
         IN  IF s.err # "ok" THEN Refuse(StatusOfAnyError(s.err, 404), s.mem, s.file, s.err)
             ELSE Result(200, "deleted", s.mem, s.file, "ok")

\* mux.HandleFunc("/health", s.HealthHandler)
HealthRoute(req, idx, file) == HealthHandler(idx, file)

RecordHandler(req, idx, file, saveOk) ==
    IF req.path = RecordsPath \/ req.path = RecordsPath \o <<"">>
    THEN IF req.method = "GET" THEN ListRecordsHandler(req, idx, file)
         ELSE IF req.method = "POST" THEN CreateRecordHandler(req, idx, file, saveOk)
         ELSE Refuse(405, idx, file, "none")
    ELSE IF UnderRecords(req.path)
    THEN IF req.method = "PUT" THEN UpdateRecordHandler(req, idx, file, saveOk)
         ELSE IF req.method = "DELETE" THEN DeleteRecordHandler(req, idx, file, saveOk)
         ELSE Refuse(405, idx, file, "none")
    ELSE Refuse(404, idx, file, "none")

\* the ServeMux of Server.Start: "/health" and "/api/v1/records" match one
\* path each, "/api/v1/records/" matches every path under it, any other path
\* gets the mux's 404
Mux(req, idx, file, saveOk) ==
    IF req.path = HealthPath THEN HealthRoute(req, idx, file)
    ELSE IF req.path = RecordsPath \/ UnderRecords(req.path)
    THEN RecordHandler(req, idx, file, saveOk)
    ELSE Refuse(404, idx, file, "none")

\* one request served from start to end
ApiServe ==
    /\ aCount < MaxRequests
    /\ \E req \in Requests, saveOk \in BOOLEAN :
           LET res == Mux(req, aMem, aFile, saveOk)
           IN  /\ aReq' = req
               /\ aResp' = [status |-> res.status, body |-> res.body]
               /\ aErr' = res.err
               /\ aMem' = res.mem
               /\ aFile' = res.file
    /\ aCount' = aCount + 1
    /\ UNCHANGED notApi

InitApi ==
    /\ StoreInitWith([kind |-> "absent"])
    /\ HeapInit
    /\ ValInit
    /\ MgrInit
    /\ DnsInit
    /\ LockInit
    /\ RefInit
    /\ \E f \in InitialFiles :
           /\ aFile = f
           /\ aMem = NewStorage(f)
    /\ aReq = NoRequest
    /\ aResp = NoResponse
    /\ aErr = "none"
    /\ aCount = 0

NextApi == ApiServe

SpecApi == InitApi /\ [][NextApi]_vars

-----------------------------------------------------------------------------
(* The calls of the goroutines of SpecLock *)

\* a goroutine calls the Storage; SetRecord validates the record before it asks
\* for the lock and returns at once when the record is invalid
Call(g, call) ==
    /\ lkPc[g] = "idle"
    /\ lkCalls < MaxCalls
    /\ lkCalls' = lkCalls + 1
    /\ lkCall' = [lkCall EXCEPT ![g] = call]
    /\ \/ lkPc' = [lkPc EXCEPT ![g] = "acquire"]
       \/ call = "set" /\ lkPc' = lkPc
    /\ UNCHANGED <<lkReaders, lkWriter>>
    /\ UNCHANGED notLock

\* sync.RWMutex.RLock: waits while a writer holds the lock or waits for it
RLock(g) ==
    /\ lkPc[g] = "acquire" /\ LockKind(lkCall[g]) = "r"
    /\ lkWriter = NoGoroutine
    /\ lkReaders' = lkReaders \cup {g}
    /\ lkPc' = [lkPc EXCEPT ![g] = AfterLock(lkCall[g])]
    /\ UNCHANGED <<lkCall, lkWriter, lkCalls>>
    /\ UNCHANGED notLock

\* sync.RWMutex.Lock, first half: the writer is alone among the writers and
\* from now on no reader gets in
LockAnnounce(g) ==
    /\ lkPc[g] = "acquire" /\ LockKind(lkCall[g]) = "w"
    /\ lkWriter = NoGoroutine
    /\ lkWriter' = g
    /\ lkPc' = [lkPc EXCEPT ![g] = "drain"]
    /\ UNCHANGED <<lkCall, lkReaders, lkCalls>>
    /\ UNCHANGED notLock

\* sync.RWMutex.Lock, second half: the readers that were in have left
LockEnter(g) ==
    /\ lkPc[g] = "drain"
    /\ lkReaders = {}
    /\ lkPc' = [lkPc EXCEPT ![g] = AfterLock(lkCall[g])]
    /\ UNCHANGED <<lkCall, lkReaders, lkWriter, lkCalls>>
    /\ UNCHANGED notLock

\* the deferred RUnlock or Unlock
Released(g) ==
    /\ lkReaders' = lkReaders \ {g}
    /\ lkWriter' = IF lkWriter = g THEN NoGoroutine ELSE lkWriter
    /\ lkPc' = [lkPc EXCEPT ![g] = "idle"]

\* the call reads or changes s.records; a read call and a DeleteRecord that
\* finds nothing return from here, SetRecord and DeleteRecord go on to save
Access(g) ==
    /\ lkPc[g] = "access"
    /\ \/ lkCall[g] \in ReadCalls /\ Released(g)
       \/ lkCall[g] = "delete" /\ Released(g)
       \/ /\ lkCall[g] \in {"set", "delete"}
          /\ lkPc' = [lkPc EXCEPT ![g] = "io"]
          /\ UNCHANGED <<lkReaders, lkWriter>>
    /\ UNCHANGED <<lkCall, lkCalls>>
    /\ UNCHANGED notLock

\* s.save() (which encodes s.records) or s.load() (which decodes into
\* s.records), and the return
FileIO(g) ==
    /\ lkPc[g] = "io"
    /\ Released(g)
    /\ UNCHANGED <<lkCall, lkCalls>>
    /\ UNCHANGED notLock

InitLock ==
    /\ StoreInitWith([kind |-> "absent"])
    /\ HeapInit
    /\ ValInit
    /\ MgrInit
    /\ DnsInit
    /\ ApiInit
    /\ LockInit
    /\ RefInit

NextLock ==
    \/ \E g \in Goroutines, call \in ReadCalls \cup WriteCalls : Call(g, call)
    \/ \E g \in Goroutines : RLock(g)
    \/ \E g \in Goroutines : LockAnnounce(g)
    \/ \E g \in Goroutines : LockEnter(g)
    \/ \E g \in Goroutines : Access(g)
    \/ \E g \in Goroutines : FileIO(g)

SpecLock == InitLock /\ [][NextLock]_vars
-----------------------------------------------------------------------------
(* The background refresh of the plugin (specifications SpecRefresh and    *)
(* SpecRefreshFair): periodicRefresh over the plugin's Storage, the ticker  *)
(* that drives it, the API server's process rewriting the records file and  *)
(* the queries served meanwhile.                                            *)

\* the times the ticker fires in one behaviour
MaxTicks == 3

\* ticker.C is a channel of capacity 1
TickerCap == 1

RefWeb == Rec(L_web, ExampleCom, "A", IP1, DefaultTTL)
RefApi == Rec(L_api, ExampleCom, "CNAME", WebExampleCom, DefaultTTL)

\* the whole document of the records of S
DocumentOf(S) == [kind |-> "full", doc |-> Encode(IndexOf(S)), size |-> Cardinality(S)]

\* what the records file holds in turn: nothing (no file), two whole
\* documents, and a document cut short
RefreshFiles ==
    { [kind |-> "absent"],
      DocumentOf({RefWeb}),
      DocumentOf({RefWeb, RefApi}),
      WriteTorn(DocumentOf({RefWeb})) }

RefreshQueries ==
    { [name |-> JoinDot(<<L_web, L_example, L_com, <<>>>>), qtype |-> "A"],
      [name |-> JoinDot(<<L_api, L_example, L_com, <<>>>>), qtype |-> "A"] }

\* a loop that ends at the first Reload that fails
AfterRefreshStopOnError(e) == IF e = "ok" THEN "wait" ELSE "stopped"

\* refresh only logs the error of Reload and returns: periodicRefresh goes on
\* to the next receive from ticker.C
AfterRefresh(e) == "wait"

\* the ticker fires: the tick goes into ticker.C, or is dropped when a tick is
\* waiting there already
Tick ==
    /\ rfTicks < MaxTicks
    /\ rfTicks' = rfTicks + 1
    /\ rfBuf' = IF rfBuf < TickerCap THEN rfBuf + 1 ELSE rfBuf
    /\ rfAtTick' = rfReloads
    /\ UNCHANGED <<rfPc, rfReloads, rfErr, rfLog, rfFile>>
    /\ UNCHANGED dnsVars
    /\ UNCHANGED notRef

\* periodicRefresh: the initial n.refresh() calls Reload
RefreshStart ==
    /\ rfPc = "start"
    /\ rfPc' = "reload"
    /\ rfReloads' = rfReloads + 1
    /\ UNCHANGED <<rfBuf, rfTicks, rfAtTick, rfErr, rfLog, rfFile>>
    /\ UNCHANGED dnsVars
    /\ UNCHANGED notRef

\* for range ticker.C { n.refresh() }: a tick is received and Reload called
RefreshOnTick ==
    /\ rfPc = "wait"
    /\ rfBuf > 0
    /\ rfBuf' = rfBuf - 1
    /\ rfPc' = "reload"
    /\ rfReloads' = rfReloads + 1
    /\ UNCHANGED <<rfTicks, rfAtTick, rfErr, rfLog, rfFile>>
    /\ UNCHANGED dnsVars
    /\ UNCHANGED notRef

\* Reload returns: load failed in os.Open or Flock and left s.records alone, or
\* it decoded the file; refresh logs the error
RefreshReturn ==
    /\ rfPc = "reload"
    /\ \E e \in {"open", "lock", "decoded"} :
          /\ e = "decoded" => rfFile.kind # "absent"
          /\ rfErr' = IF e = "decoded"
                      THEN (IF Decodable(rfFile) THEN "ok" ELSE "decode")
                      ELSE e
          /\ dIndex' = IF e = "decoded" THEN LoadResult(dIndex, rfFile) ELSE dIndex
    /\ rfLog' = IF rfErr' = "ok" THEN rfLog ELSE rfLog + 1
    /\ rfPc' = AfterRefresh(rfErr')
    /\ UNCHANGED <<rfBuf, rfTicks, rfReloads, rfAtTick, rfFile, dReq, dOut>>
    /\ UNCHANGED notRef

\* the process of the API server replaces the records file, or a write of it
\* is cut short
FileReplaced ==
    /\ \E f \in RefreshFiles \ {rfFile} : rfFile' = f
    /\ UNCHANGED <<rfPc, rfBuf, rfTicks, rfReloads, rfAtTick, rfErr, rfLog>>
    /\ UNCHANGED dnsVars
    /\ UNCHANGED notRef

\* ServeDNS on a query that comes in while the loop runs
RefreshQuery ==
    /\ \E q \in RefreshQueries, writeOk \in BOOLEAN :
          /\ dReq' = q
          /\ dOut' = Serve(dIndex, ServedDomains, q.name, q.qtype, writeOk)
    /\ UNCHANGED dIndex
    /\ UNCHANGED refVars
    /\ UNCHANGED notRef

InitRefresh ==
    /\ StoreInitWith([kind |-> "absent"])
    /\ HeapInit
    /\ ValInit
    /\ MgrInit
    /\ DnsInit
    /\ ApiInit
    /\ LockInit
    /\ RefInit

NextRefresh ==
    \/ Tick
    \/ RefreshStart
    \/ RefreshOnTick
    \/ RefreshReturn
    \/ FileReplaced
    \/ RefreshQuery

SpecRefresh == InitRefresh /\ [][NextRefresh]_vars

\* the goroutine of periodicRefresh is scheduled and its Reload calls return;
\* the ticker, the writer of the file and the clients owe nothing
RefreshFairness ==
    WF_vars(RefreshStart) /\ WF_vars(RefreshOnTick) /\ WF_vars(RefreshReturn)

SpecRefreshFair == InitRefresh /\ [][NextRefresh]_vars /\ RefreshFairness


-----
(* Properties of the store *)

LoadPcs == {"load_open", "load_lock", "load_decode"}

\* C1: every load of the canonical file reads a complete snapshot written by
\* one save call (or the initial file), never an empty, truncated or mixed
\* file: a thread that holds the shared lock and is about to decode has a
\* whole document before it.
C1_LoadReadsCompleteSnapshot ==
    \A t \in Threads : pc[t] = "load_decode" => inode[fd[t]].kind = "full"

\* C2: when SetRecord or DeleteRecord returns success, its own rename step has
\* put a snapshot of the whole in-memory index, the operation included, at the
\* canonical path.
C2_SuccessMeansPersisted ==
    [][\A t \in Threads :
          (pc[t] = "save_rename" /\ pc'[t] = "save_remove" /\ err'[t] = "")
          => (canon' # NoInode /\ inode'[canon'] = FullContent(mem[ProcOf(t)]))]_vars

\* C3: a save that fails before the rename (at the creation of the temp file,
\* at the exclusive lock or at the encoding) leaves the content of the canonical
\* file as it was, leaves no .tmp file behind, and returns the error.
C3_FailedSaveLeavesFilesAlone ==
    [][\A t \in Threads :
          /\ (pc[t] = "save_open" /\ pc'[t] = "idle")
             => (ret'.thread = t /\ ret'.err = "open" /\ UNCHANGED <<canon, tmp, inode>>)
          /\ (pc[t] \in {"save_lock", "save_write"} /\ pc'[t] = "save_remove")
             => CanonContent' = CanonContent
          /\ (pc[t] = "save_remove" /\ err[t] \in {"lock", "encode"} /\ pc'[t] = "idle")
             => (tmp' = NoInode /\ CanonContent' = CanonContent
                 /\ ret'.thread = t /\ ret'.err = err[t])]_vars

\* C4: after Reload returns success the in-memory index equals the snapshot it
\* read: nothing that the snapshot lacks stays in memory.
C4_ReloadReplacesIndex ==
    [][\A t \in Threads :
          (pc[t] = "load_decode" /\ pc'[t] = "idle" /\ ret'.err = "ok")
          => mem'[ProcOf(t)] = DecodeDoc(inode[fd[t]].doc)]_vars

\* what GetRecord has to return once the write w is visible
VisibleAs(w) ==
    IF w.kind = "set"
    THEN [err |-> "ok",
          val |-> [w.rec EXCEPT !.ttl = IF w.rec.ttl = 0 THEN DefaultTTL ELSE w.rec.ttl]]
    ELSE [err |-> "notfound", val |-> NoRecord]

\* C5: when a Reload that was called after a SetRecord or DeleteRecord (of any
\* process) had returned success completes with success, and no other write ran
\* in between, GetRecord in the reloading process returns the written record
\* after a set and NotFound after a delete.
C5_ReloadShowsWrite ==
    [][\A t \in Threads :
          (/\ pc[t] = "load_decode" /\ pc'[t] = "idle" /\ ret'.err = "ok"
           /\ op[t].after.op.kind \in {"set", "delete"}
           /\ op[t].after.err = "ok")
          => GetRecord(mem'[ProcOf(t)], op[t].after.op.domain, op[t].after.op.name)
                = VisibleAs(op[t].after.op)]_vars

\* C6: during a Reload the in-memory index changes only in the step by which
\* the Reload returns success; a Reload that fails at open, at the shared lock
\* or at the decoding returns that error.
C6_FailedReloadKeepsIndex ==
    [][\A t \in Threads :
          /\ (pc[t] \in LoadPcs /\ mem'[ProcOf(t)] # mem[ProcOf(t)])
             => (pc'[t] = "idle" /\ ret'.thread = t /\ ret'.err = "ok")
          /\ (pc[t] = "load_decode" /\ pc'[t] = "idle" /\ ~Decodable(inode[fd[t]]))
             => (ret'.thread = t /\ ret'.err = "decode")]_vars

\* C7: Reload on a missing records file returns success and leaves the index
\* unchanged.
C7_ReloadMissingFileSucceeds ==
    [][\A t \in Threads :
          (pc[t] = "load_open" /\ canon = NoInode /\ pc'[t] = "idle")
          => (ret'.err = "ok" /\ mem' = mem)]_vars

\* C8: right after SetRecord(r) has returned success, GetRecord(r.domain,
\* r.name) returns r with its ttl, or with ttl 60 when r.ttl was 0.
C8_RoundTrip ==
    (ret.op.kind = "set" /\ ret.err = "ok")
    => LET r == ret.op.rec
       IN  GetRecord(mem[ProcOf(ret.thread)], r.domain, r.name)
              = [err |-> "ok",
                 val |-> Rec(r.name, r.domain, r.type, r.value,
                             IF r.ttl = 0 THEN 60 ELSE r.ttl)]

\* a SetRecord of a record with ttl 0 has just returned success
C8_Witness == ret.op.kind = "set" /\ ret.err = "ok" /\ ret.op.rec.ttl = 0

\* C10: once DeleteRecord has removed the last record of a domain,
\* ListRecordsByDomain returns the empty mapping and ListRecords has no key for
\* the domain; no domain key of any index maps to an empty mapping.
C10_DomainCleanup ==
    /\ \A p \in Procs : \A d \in DOMAIN mem[p] : DOMAIN mem[p][d] # {}
    /\ (ret.op.kind = "delete" /\ ret.err # "notfound" /\ ret.op.last)
       => /\ ListRecordsByDomain(mem[ProcOf(ret.thread)], ret.op.domain) = <<>>
          /\ ret.op.domain \notin DOMAIN ListRecords(mem[ProcOf(ret.thread)])

\* a DeleteRecord of the last record of its domain has just returned success
C10_Witness == ret.op.kind = "delete" /\ ret.err = "ok" /\ ret.op.last


\* C9: what ListRecords and ListRecordsByDomain return is a copy of its own.
\* No write of the caller to the returned mapping or to a Record in it changes
\* what the store holds or what it has saved, and no later SetRecord or
\* DeleteRecord changes a Record or an entry of a mapping returned before.
C9_ListCopiesAreIsolated ==
    [][/\ CallerStep => (StoreView' = StoreView /\ hDisk' = hDisk)
       /\ StoreStep => HeldView' = HeldView]_vars

\* The caller holds a listing in which it has rewritten a Record that the store
\* still holds unchanged, and which still has an entry the store has deleted.
C9_Witness ==
    /\ hHeld.kind # "none"
    /\ \E k \in Keys :
         /\ HasRecord(hHeld.map, k[1], k[2]) /\ HasRecord(hIndex, k[1], k[2])
         /\ hHeap[hHeld.map[k[1]][k[2]]].value = Host1
         /\ hHeap[hIndex[k[1]][k[2]]].value = IP1
    /\ \E k \in Keys :
         /\ HasRecord(hHeld.map, k[1], k[2]) /\ ~HasRecord(hIndex, k[1], k[2])
         /\ hHeap[hHeld.map[k[1]][k[2]]].ttl = 30


\* what the two calls of a DeleteRecord pair may return
SaveErrors == {"open", "lock", "encode", "rename"}

\* C11 as stated: a DeleteRecord of an existing key returns success, and the
\* DeleteRecord of the same key that follows it at once returns NotFound.
C11_DeleteTwice ==
    ret.op.kind = "delete"
    => IF ret.op.again THEN ret.err = "notfound" ELSE ret.err \in {"ok", "notfound"}

\* C11, amended: a DeleteRecord of an existing key returns success or the error
\* of its save, never NotFound, and the DeleteRecord of the same key that follows
\* it at once returns NotFound, without a save, whichever of the two the first
\* one returned.
C11_DeleteTwiceOrSaveError ==
    /\ ret.op.kind = "delete" => ret.err \in {"ok", "notfound"} \cup SaveErrors
    /\ (ret.op.kind = "delete" /\ ret.op.again) => ret.err = "notfound"
    /\ \A t \in Threads : op[t].kind = "delete" => ~op[t].again

\* the second DeleteRecord of a pair has just returned
C11_Witness == ret.op.kind = "delete" /\ ret.op.again /\ ret.err = "notfound"

\* C12: SetRecord with a record that fails validation returns the validation
\* error, begins no save and changes neither the in-memory index nor any file;
\* no save is ever running for a record that fails validation.
C12_InvalidSetChangesNothing ==
    [][/\ \A t \in Threads :
            (op'[t] # op[t] /\ op'[t].kind = "set") => Validate(op'[t].rec) = ""
       /\ (ret' # ret /\ ret'.op.kind = "set" /\ Validate(ret'.op.rec) # "")
            => /\ ret'.err = "invalid"
               /\ UNCHANGED <<mem, mu, pc, fd, canon, tmp, inode>>]_vars

\* a SetRecord of a record that fails validation has just returned
C12_Witness == ret.op.kind = "set" /\ ret.err = "invalid" /\ canon # NoInode

\* The acceptance rule in the words of C13.
ClaimLabelOk(l) ==
    /\ Len(l) > 0
    /\ \A i \in 1..Len(l) : l[i] \in Letters \cup Digits \cup {"-"}
    /\ l[1] # "-" /\ l[Len(l)] # "-"
ClaimDomainOk(s) ==
    LET labels == SplitAt(TrimDot(s), ".")
    IN  \A i \in 1..Len(labels) : ClaimLabelOk(labels[i])
ClaimAccepts(r) ==
    /\ r.name # "" /\ r.domain # "" /\ r.type # "" /\ r.value # <<>>
    /\ r.type \in {"A", "CNAME"}
    /\ r.type = "A" => IsDottedQuad(r.value)
    /\ r.type = "CNAME" => ClaimDomainOk(r.value)

\* C13: Validate accepts a record exactly when its four fields are non-empty,
\* its type is A or CNAME, the value of an A record is an IPv4 literal and the
\* value of a CNAME record is a domain name of well-formed labels.
C13_ValidateIff ==
    vOut # NotValidated => ((vOut = "") <=> ClaimAccepts(vIn))


-----------------------------------------------------------------------------
(* Properties of the process manager *)

\* C14: once a managed process has exited with a non-zero status while main is
\* blocked in RunWithSignalHandling, RunWithSignalHandling runs Stop to its end
\* and returns, with or without a signal from the operating system.
C14_FailFast ==
    (mainPc = "run" /\ \E c \in Managed(mList) : osProc[c] = "exitErr")
        ~> (mainPc = "done")

\* RunWithSignalHandling has returned after a managed process exited with a
\* non-zero status, and no signal was ever delivered
C14_Witness ==
    /\ mainPc = "done"
    /\ ~sigArrived
    /\ \E c \in Managed(mList) : osProc[c] = "exitErr" /\ mon[c] = "done"

\* C15: whenever the monitor of a managed process finishes, whatever the exit
\* status, while the shared context is not yet cancelled, it cancels it.
C15_AnyExitCancels ==
    [][\A c \in Children :
          (mon[c] = "reaped" /\ mon'[c] = "done" /\ ~mCancelled) => mCancelled']_vars

\* C16: at the step by which Stop returns, no managed process has its running
\* flag set.
C16_StopLeavesNoneRunning ==
    [][(mainPc # "done" /\ mainPc' = "done")
          => \A c \in Managed(mList') : ~mRunning'[c]]_vars

\* C17: Stop always ends: the polling loop sleeps at most deadline / interval
\* times, Stop returns nil, and it returns whatever the children do and whether
\* or not its Signal and Kill calls fail.
C17_StopTerminates ==
    /\ [](polls <= PollsPerDeadline)
    /\ [](mainPc = "done" => mRet = "ok")
    /\ (mainPc \in StopPcs) ~> (mainPc = "done")

\* Stop has returned after the whole deadline, with a child that never exited
\* and a Signal or Kill call that failed
C17_Witness ==
    /\ mainPc = "done"
    /\ polls = PollsPerDeadline
    /\ \E c \in Managed(mList) : osProc[c] = "alive"
    /\ \E k \in mSent : k.by = "stop" /\ ~k.ok

\* C18: a managed process is sent the forceful kill only by the kill pass of
\* Stop, that is after the deadline has gone by with its running flag set, and
\* never when Stop saw every process exited before the deadline.
C18_TwoPhase ==
    \A k \in mSent :
        (k.sig = "KILL" /\ k.child \in Managed(mList))
        => (k.by = "stop" /\ ~graceful)

\* C19: once the SIGTERM pass is over, every process of Stop's copy whose
\* running flag is set has had its SIGTERM attempted, and once Stop has returned
\* after the deadline every such process has had its Kill attempted, whichever
\* of these calls failed.
C19_BestEffort ==
    /\ mainPc \in {"stop_poll", "stop_kill", "done"}
       => \A i \in 1..Len(snap) :
             mRunning[snap[i]]
             => \E k \in mSent : k.child = snap[i] /\ k.sig = "TERM" /\ k.by = "stop"
    /\ (mainPc = "done" /\ ~graceful)
       => \A i \in 1..Len(snap) :
             mRunning[snap[i]]
             => \E k \in mSent : k.child = snap[i] /\ k.sig = "KILL" /\ k.by = "stop"

\* Stop has returned after the deadline; the SIGTERM to the first process of
\* its copy failed, and that process and the one after it were both sent the
\* forceful kill
C19_Witness ==
    /\ mainPc = "done" /\ ~graceful
    /\ Len(snap) = 2
    /\ Sent(snap[1], "TERM", "stop", FALSE) \in mSent
    /\ \E ok \in BOOLEAN : Sent(snap[2], "TERM", "stop", ok) \in mSent
    /\ \E ok \in BOOLEAN : Sent(snap[1], "KILL", "stop", ok) \in mSent
    /\ \E ok \in BOOLEAN : Sent(snap[2], "KILL", "stop", ok) \in mSent

\* C20: a StartCoreDNS or StartNetBird call made after the shared context was
\* cancelled returns an error, launches nothing and adds no process.
C20_NoLaunchAfterCancel ==
    [][(mCalls' # mCalls /\ mCancelled)
          => /\ mRet' = "error"
             /\ mList' = mList /\ mRunning' = mRunning /\ osProc' = osProc]_vars

\* both Start calls were made, the second one after a monitor had cancelled the
\* context, and it launched nothing
C20_Witness ==
    /\ mCancelled /\ mRet = "error"
    /\ mCalls = Children
    /\ \E c \in Children : osProc[c] = "none"
    /\ \E c \in Children : mon[c] = "done"

-----------------------------------------------------------------------------
(* Properties of the plugin *)

ServeDNSDone == dOut # NotServed

\* the name falls under a served domain and its first label and other labels
\* are the key of a stored record of type t
MapsToStored(name, t) ==
    /\ MatchesDomain(name, ServedDomains)
    /\ SplitName(name).ok
    /\ HasRecord(dIndex, SplitName(name).domain, SplitName(name).name)
    /\ dIndex[SplitName(name).domain][SplitName(name).name].type = t

StoredFor(name) == dIndex[SplitName(name).domain][SplitName(name).name]

EndsWithDot(v) == Len(v) > 0 /\ v[Len(v)] = "."

\* the answer is one CNAME record whose target is the value v with a final dot
IsCnameAnswerFor(v) ==
    /\ dOut.kind = "answer"
    /\ dOut.msg.rrtype = "CNAME"
    /\ dOut.msg.target = IF EndsWithDot(v) THEN v ELSE v \o <<".">>

\* the answer is one A record with the address the value v denotes
IsAAnswerFor(v) ==
    /\ dOut.kind = "answer"
    /\ dOut.msg.rrtype = "A"
    /\ dOut.msg.a = ParseIP(v)

\* C21: a query of type A or CNAME whose name, as it came in, falls under a
\* served domain and whose first label and other labels are the key of a stored
\* CNAME record is answered with a CNAME record whose target is the stored
\* value with a final dot: it is neither passed on nor answered with an A record.
C21_CnameAnswer ==
    (ServeDNSDone /\ dReq.qtype \in {"A", "CNAME"} /\ MapsToStored(dReq.name, "CNAME"))
    => IsCnameAnswerFor(StoredFor(dReq.name).value)

\* C21 as amended: the same of the lower-cased name of the query.
C21_CnameAnswerLowerCased ==
    (ServeDNSDone /\ dReq.qtype \in {"A", "CNAME"}
        /\ MapsToStored(ToLower(dReq.name), "CNAME"))
    => IsCnameAnswerFor(StoredFor(ToLower(dReq.name)).value)

\* a query of type A whose name has a capital letter was answered with the
\* CNAME record stored under the lower-cased name, a dot added to its value;
\* the store holds an A record as well
C21_Witness ==
    /\ dReq.qtype = "A" /\ dReq.name # ToLower(dReq.name)
    /\ MapsToStored(ToLower(dReq.name), "CNAME")
    /\ ~EndsWithDot(StoredFor(ToLower(dReq.name)).value)
    /\ dOut.kind = "answer" /\ dOut.msg.rrtype = "CNAME" /\ EndsWithDot(dOut.msg.target)
    /\ HasRecord(dIndex, ExampleCom, L_web)

\* C22: every query whose name, as it came in, falls under a served domain and
\* whose first label and other labels are the key of a stored A record holding
\* an IPv4 address is answered with an A record carrying that address.
C22_AAnswer ==
    (ServeDNSDone /\ MapsToStored(dReq.name, "A")
        /\ ParsesAsIPv4(StoredFor(dReq.name).value))
    => IsAAnswerFor(StoredFor(dReq.name).value)

\* C22 as amended: the same of the queries of type A and of their lower-cased
\* names.
C22_AAnswerToTypeA ==
    (ServeDNSDone /\ dReq.qtype = "A" /\ MapsToStored(ToLower(dReq.name), "A")
        /\ ParsesAsIPv4(StoredFor(ToLower(dReq.name)).value))
    => IsAAnswerFor(StoredFor(ToLower(dReq.name)).value)

\* a query of type A was answered with the address of the stored A record,
\* while the store also holds CNAME records under other names
C22_Witness ==
    /\ dReq.qtype = "A"
    /\ MapsToStored(ToLower(dReq.name), "A")
    /\ dOut.kind = "answer" /\ dOut.msg.rrtype = "A" /\ dOut.msg.a = IP1
    /\ dOut.rcode = "NOERROR"
    /\ HasRecord(dIndex, ExampleCom, L_api)

NoRecordFor(name) ==
    ~(SplitName(name).ok
      /\ HasRecord(dIndex, SplitName(name).domain, SplitName(name).name))

\* C23: ServeDNS passes the query to the next plugin, writing nothing, whenever
\* the name as it came in falls under no served domain and whenever it does but
\* the store holds no record under its first label and other labels; and every
\* message ServeDNS writes carries an answer record.
C23_Declines ==
    ServeDNSDone
    => /\ (~MatchesDomain(dReq.name, ServedDomains) \/ NoRecordFor(dReq.name))
          => dOut = NextPlugin
       /\ dOut.kind = "answer" => dOut.msg.rrtype \in {"A", "CNAME"}

\* C23 as amended: the same of the lower-cased name of the query.
C23_DeclinesLowerCased ==
    ServeDNSDone
    => /\ (~MatchesDomain(ToLower(dReq.name), ServedDomains)
              \/ NoRecordFor(ToLower(dReq.name)))
          => dOut = NextPlugin
       /\ dOut.kind = "answer" => dOut.msg.rrtype \in {"A", "CNAME"}

\* a query under the served domain for which a non-empty store holds no record
\* was passed on
C23_Witness ==
    /\ dOut = NextPlugin
    /\ MatchesDomain(ToLower(dReq.name), ServedDomains)
    /\ NoRecordFor(ToLower(dReq.name))
    /\ dIndex # EmptyIndex

-----------------------------------------------------------------------------
(* Properties of the management API *)

\* the type and the value of the record are valid
ValidTypeAndValue(r) == Validate([r EXCEPT !.name = "n", !.domain = "d"]) = ""

\* the request names one record: /api/v1/records/{domain}/{name}
IsItemPath(path) ==
    /\ UnderRecords(path)
    /\ Len(PathParts(path)) = 2
    /\ PathParts(path)[1] # "" /\ PathParts(path)[2] # ""

\* C24: a PUT to /api/v1/records/{domain}/@ whose body carries a valid type and
\* value, and whose save succeeds, stores the record under (domain, "") with the
\* empty name and answers 200 with that record.
C24_PutApex ==
    (/\ aReq.method = "PUT"
     /\ IsItemPath(aReq.path) /\ PathParts(aReq.path)[2] = "@"
     /\ aReq.body.kind = "json" /\ ValidTypeAndValue(aReq.body.rec)
     /\ aErr # "save")
    => /\ aResp.status = 200
       /\ HasRecord(aMem, PathParts(aReq.path)[1], "")
       /\ aMem[PathParts(aReq.path)[1]][""].name = ""
       /\ aResp.body = aMem[PathParts(aReq.path)[1]][""]

\* C25: a POST, PUT or DELETE whose storage call failed in its save is answered
\* with status 500.
C25_SaveFailureIs500 ==
    (aReq.method \in {"POST", "PUT", "DELETE"} /\ aErr = "save") => aResp.status = 500

\* the paths the API serves and the methods of each
IsServedPath(path) == path = HealthPath \/ path = RecordsPath \/ IsItemPath(path)
SupportedMethods(path) ==
    IF path = HealthPath THEN {"GET"}
    ELSE IF path = RecordsPath THEN {"GET", "POST"}
    ELSE {"PUT", "DELETE"}

\* C26: a request whose path is none of /health, /api/v1/records and
\* /api/v1/records/{domain}/{name} is answered 404, and a request to one of
\* these paths with a method the path does not support is answered 405.
C26_NotFoundAndNotAllowed ==
    aReq # NoRequest
    => /\ (~IsServedPath(aReq.path) /\ aReq.path # RecordsPath \o <<"">>)
          => aResp.status = 404
       /\ (IsServedPath(aReq.path) /\ aReq.method \notin SupportedMethods(aReq.path))
          => aResp.status = 405

\* C27: a DELETE of /api/v1/records/{domain}/{name} is answered 200 exactly when
\* the record was in the store and is not any more, and 404 exactly when it was
\* not in the store, and then the store is as it was.
C27_DeleteStatus ==
    [][(aCount' # aCount /\ aReq'.method = "DELETE" /\ IsItemPath(aReq'.path))
          => LET d == PathParts(aReq'.path)[1]
                 n == NormalizeName(PathParts(aReq'.path)[2])
             IN  /\ aResp'.status = 200 <=> (HasRecord(aMem, d, n) /\ ~HasRecord(aMem', d, n))
                 /\ aResp'.status = 404 <=> ~HasRecord(aMem, d, n)
                 /\ aResp'.status = 404 => aMem' = aMem]_vars

-----------------------------------------------------------------------------
(* Properties of the lock discipline *)

\* the goroutine is at a point of its call where s.records is read or written
InIndex(g) == lkPc[g] \in {"access", "io"}

\* C28: within one process, while a SetRecord, DeleteRecord or Reload is at the
\* index no other call is at the index, so that only read calls overlap; and a
\* save or load runs with the write lock held and no reader in.
C28_WritersExclude ==
    /\ \A g, h \in Goroutines :
          (g # h /\ InIndex(g) /\ lkCall[g] \in WriteCalls) => ~InIndex(h)
    /\ \A g \in Goroutines :
          lkPc[g] = "io" => (lkWriter = g /\ lkReaders = {})

\* two read calls are at the index together while a writer waits for them, and
\* the third goroutine is that writer
C28_Witness ==
    \E g, h, k \in Goroutines :
        /\ g # h
        /\ lkPc[g] = "access" /\ lkCall[g] \in ReadCalls
        /\ lkPc[h] = "access" /\ lkCall[h] \in ReadCalls
        /\ lkPc[k] = "drain" /\ lkCall[k] = "reload"

-----------------------------------------------------------------------------
(* Properties of the advisory file locks *)

\* C29: across the processes that share the records path, while one holds the
\* exclusive lock taken by save no other holds the shared lock taken by load
\* nor the exclusive lock of another save.
C29_FileLocksExclude ==
    \A t, u \in Threads :
        (ProcOf(t) # ProcOf(u) /\ HoldsEX(t)) => (~HoldsSH(u) /\ ~HoldsEX(u))

-----------------------------------------------------------------------------
(* Properties of the index *)

\* every entry idx[d][n] is a valid record of domain d and name n with a ttl
IndexWellFormed(idx) ==
    \A d \in DOMAIN idx : \A n \in DOMAIN idx[d] :
        /\ idx[d][n].domain = d
        /\ idx[d][n].name = n
        /\ Validate(idx[d][n]) = ""
        /\ idx[d][n].ttl # 0

\* C30: in every state reached through SetRecord and DeleteRecord (the calls
\* the POST, PUT and DELETE handlers make) and through Reload of the files save
\* wrote, every entry index[d][n] of every process is a record of domain d and
\* name n that passes validation and has a non-zero ttl.
C30_IndexWellFormed == \A p \in Procs : IndexWellFormed(mem[p])


-----------------------------------------------------------------------------
(* Further properties of the process manager *)

Exited(c) == osProc[c] \in {"exit0", "exitErr"}

\* C31: the running flag of a managed process is set at the step that adds the
\* process to m.processes and from then on only ever goes from true to false;
\* m.processes only grows, never holds a process twice, and a process that has
\* exited is never launched again.
C31_RunningMonotone ==
    [][/\ \A c \in Children :
             (c \notin Managed(mList) /\ c \in Managed(mList')) => mRunning'[c]
       /\ \A c \in Managed(mList) : mRunning'[c] => mRunning[c]
       /\ Len(mList') >= Len(mList) /\ SubSeq(mList', 1, Len(mList)) = mList
       /\ \A i, j \in 1..Len(mList') : mList'[i] = mList'[j] => i = j
       /\ \A c \in Children : Exited(c) => osProc'[c] = osProc[c]]_vars

\* main is blocked in RunWithSignalHandling with two managed processes: the
\* first has exited and its flag was cleared before the second was added, whose
\* flag is still set
C31_Witness ==
    /\ mainPc = "run"
    /\ Len(mList) = 2
    /\ Exited(mList[1]) /\ ~mRunning[mList[1]] /\ mon[mList[1]] = "done"
    /\ osProc[mList[2]] = "alive" /\ mRunning[mList[2]]

\* Stop is entered by the step that takes main to the SIGTERM pass
StopCalled == mainPc # "stop_term" /\ mainPc' = "stop_term"

\* C32: RunWithSignalHandling enters Stop only from its select and only when a
\* termination signal has arrived or the shared context is cancelled; once
\* either has happened while it waits it does enter Stop, and after Stop has
\* been entered it is never entered again and main never waits in the select
\* again; a context that is cancelled stays cancelled, however many times
\* cancel is called.
C32_StopOnce ==
    /\ [][StopCalled => (mainPc = "run" /\ (sigArrived \/ mCancelled))]_vars
    /\ [][(mainPc = "done" \/ mainPc \in StopPcs) => (~StopCalled /\ mainPc' # "run")]_vars
    /\ [][mCancelled => mCancelled']_vars
    /\ (mainPc = "run" /\ (sigArrived \/ mCancelled)) ~> (mainPc \in StopPcs)

\* RunWithSignalHandling has returned; a signal had arrived and the monitor of
\* a process that exited with an error has run to its end as well
C32_Witness ==
    /\ mainPc = "done" /\ mRet = "ok"
    /\ sigArrived /\ mCancelled
    /\ \E c \in Managed(mList) : osProc[c] = "exitErr" /\ mon[c] = "done"

\* C40: a managed process whose running flag is false has exited, in every
\* state; the flag is cleared only by the step of the monitor that follows the
\* return of cmd.Wait on a process that has exited, a step that leaves main
\* (and so Stop and its two passes) where it stands.
C40_NotRunningIsExited ==
    /\ [](\A c \in Managed(mList) : ~mRunning[c] => Exited(c))
    /\ [][\A c \in Children :
             (mRunning[c] /\ ~mRunning'[c])
             => /\ mon[c] = "waiting" /\ mon'[c] = "reaped"
                /\ Exited(c)
                /\ mainPc' = mainPc /\ pos' = pos /\ mSent' = mSent]_vars

\* Stop has returned after its kill pass: one process had exited and had its
\* flag cleared by its monitor; the other was sent the forceful kill by Stop and
\* has exited, and its flag is still set
C40_Witness ==
    /\ mainPc = "done" /\ ~graceful
    /\ \E c, d \in Managed(mList) :
          /\ Exited(c) /\ ~mRunning[c] /\ mon[c] \in {"reaped", "done"}
          /\ Exited(d) /\ mRunning[d] /\ mon[d] = "waiting"
          /\ Sent(d, "KILL", "stop", TRUE) \in mSent

-----------------------------------------------------------------------------
(* Properties of the background refresh *)

\* a step by which a Reload begins, and one by which a Reload returns
ReloadBegins == rfReloads' # rfReloads
ReloadReturns == rfPc = "reload" /\ rfPc' # "reload"

-----------------------------------------------------------------------------
(* Further properties of the store *)

\* the key (d, n) is in the index
InIndexAt(idx, d, n) == d \in DOMAIN idx /\ n \in DOMAIN idx[d]

\* C34: a DeleteRecord call returns at once, with NotFound, exactly when its
\* domain is not in the index or its name is not in that domain; such a call
\* changes neither the index nor the files, and opens, locks, writes and
\* renames nothing.
C34_DeleteMissing ==
    [][ops' = ops + 1
         => /\ ret'.op.kind = "delete"
               => /\ ret'.err = "notfound"
                  /\ ~InIndexAt(mem[ProcOf(ret'.thread)], ret'.op.domain, ret'.op.name)
                  /\ UNCHANGED <<mem, mu, pc, fd, canon, tmp, inode, faults>>
            /\ \A t \in Threads :
                  (op[t] = NoOp /\ op'[t].kind = "delete")
                  => InIndexAt(mem[ProcOf(t)], op'[t].domain, op'[t].name)]_vars

\* DeleteRecord has just returned NotFound for a name that is not in a domain
\* the index has; the records file exists
C34_Witness ==
    /\ ret.op.kind = "delete" /\ ret.err = "notfound"
    /\ ret.op.domain \in DOMAIN mem[ProcOf(ret.thread)]
    /\ canon # NoInode

SavePcs == {"save_open", "save_lock", "save_write", "save_rename", "save_remove"}

\* thread t takes a step of its save other than a rename that succeeds
StepOfSaveButRename(t) ==
    /\ pc[t] \in SavePcs /\ pc'[t] # pc[t]
    /\ ~(pc[t] = "save_rename" /\ err'[t] = "")

\* C35: once SetRecord or DeleteRecord has returned the error of its save, the
\* index of its process holds the change (GetRecord returns the new record,
\* or NotFound after a delete); no step of a save but a rename that succeeds
\* changes the content of the canonical file, so a save that fails leaves the
\* earlier snapshot there; and a rename that succeeds puts the whole index of
\* its process, changes of failed calls included, at the canonical path.
C35_NoRollback ==
    /\ []((ret.op.kind \in {"set", "delete"} /\ ret.err \in SaveErrors)
            => GetRecord(mem[ProcOf(ret.thread)], ret.op.domain, ret.op.name)
                   = VisibleAs(ret.op))
    /\ [][\A t \in Threads : StepOfSaveButRename(t) => CanonContent' = CanonContent]_vars
    /\ [][\A t \in Threads :
             (pc[t] = "save_rename" /\ pc'[t] = "save_remove" /\ err'[t] = "")
             => /\ Decodable(CanonContent')
                /\ DecodeDoc(CanonContent'.doc) = mem[ProcOf(t)]]_vars

\* the caller holds a pointer from GetRecord, to the Record of key k
HoldsPointerTo(held, k) == held.kind = "ref" /\ HasRecord(held.map, k[1], k[2])

-----------------------------------------------------------------------------
(* Further properties of the plugin *)

\* the name ends with the characters of a served domain and its dot, and is
\* neither that domain nor a name under it
SuffixOnly(q) ==
    /\ \E i \in 1..Len(ServedDomains) : HasSuffix(q, ServedDomains[i] \o <<".">>)
    /\ \A i \in 1..Len(ServedDomains) :
          /\ q # ServedDomains[i] \o <<".">>
          /\ ~HasSuffix(q, <<".">> \o ServedDomains[i] \o <<".">>)

\* the first label and the other labels of the name are the key of a stored
\* record of type t
KeyOfStored(q, t) ==
    /\ SplitName(q).ok
    /\ HasRecord(dIndex, SplitName(q).domain, SplitName(q).name)
    /\ dIndex[SplitName(q).domain][SplitName(q).name].type = t

C38_AnswerTtl ==
    (ServeDNSDone /\ dOut.kind = "answer")
    => (dOut.msg.rrtype \in {"A", "CNAME"} /\ dOut.msg.ttl = 60)

\* the store holds an A record with ttl 300 and a CNAME record with ttl 30, and
\* a query for one of them was answered
C38_Witness ==
    /\ dOut.kind = "answer"
    /\ KeyOfStored(ToLower(dReq.name), dOut.msg.rrtype)
    /\ StoredFor(ToLower(dReq.name)).ttl \in {30, 300}
    /\ \E d \in DOMAIN dIndex : \E n \in DOMAIN dIndex[d] :
          dIndex[d][n].type = "A" /\ dIndex[d][n].ttl = 300
    /\ \E d \in DOMAIN dIndex : \E n \in DOMAIN dIndex[d] :
          dIndex[d][n].type = "CNAME" /\ dIndex[d][n].ttl = 30

-----------------------------------------------------------------------------
(* Further properties of the management API *)

\* the request served by this step is a PUT of a JSON body to the path of one
\* record whose name is not "@"
PutOfRecord ==
    /\ aCount' = aCount + 1
    /\ aReq'.method = "PUT"
    /\ IsItemPath(aReq'.path) /\ PathParts(aReq'.path)[2] # "@"
    /\ aReq'.body.kind = "json"

\* the index idx differs from old at most in the key (d, n)
SameBut(idx, old, d, n) ==
    \A k \in Keys :
        k # <<d, n>>
        => /\ HasRecord(idx, k[1], k[2]) <=> HasRecord(old, k[1], k[2])
           /\ HasRecord(old, k[1], k[2]) => idx[k[1]][k[2]] = old[k[1]][k[2]]

\* C39: a PUT to /api/v1/records/{domain}/{name} whose body carries a valid type
\* and value stores the record of the body under the domain and the name of the
\* URL, whatever domain and name the body gives and whether or not a record was
\* there, and leaves every other key alone; it is answered 200 when the save
\* succeeds, also when it has created the record, and no such PUT is answered
\* 404.
C39_PutIsUpsert ==
    [][PutOfRecord
         => LET d == PathParts(aReq'.path)[1]
                n == PathParts(aReq'.path)[2]
                b == aReq'.body.rec
            IN  /\ aResp'.status # 404
                /\ SameBut(aMem', aMem, d, n)
                /\ ValidTypeAndValue(b)
                   => /\ HasRecord(aMem', d, n)
                      /\ aMem'[d][n] = Stored(Rec(n, d, b.type, b.value, b.ttl))
                      /\ aErr' # "save" => aResp'.status = 200
                /\ ~ValidTypeAndValue(b) => (aMem' = aMem /\ aResp'.status = 400)]_vars

\* the first request, a PUT to /api/v1/records/example.com/api whose body names
\* another record, was answered 200 and has created the record (example.com,
\* api) on a store that had no such record
C39_Witness ==
    /\ aCount = 1
    /\ aReq.method = "PUT" /\ aReq.path = ItemPath("example.com", "api")
    /\ aReq.body.kind = "json" /\ aReq.body.rec.name = "web"
    /\ aResp.status = 200
    /\ HasRecord(aMem, "example.com", "api")
    /\ aMem["example.com"]["api"].name = "api"
    /\ aMem["example.com"]["api"].value = aReq.body.rec.value
=============================================================================
